---- MODULE Spec2Model ----
(***************************************************************************)
(* Solfege ear trainer: the drill cycle controller (useAutoplayCycle hook  *)
(* plus the App handlers that drive it), the pitch detection pipeline      *)
(* (useInstrumentMode.detectionStep) and the live-mode attempt classifier. *)
(* Times are integer milliseconds.  Timers are pending setTimeout          *)
(* callbacks kept in creation order with their remaining delay.            *)
(***************************************************************************)
EXTENDS Integers, Sequences, FiniteSets, TLC

VARIABLES hook, app, timers, obs, det, live, audio

vars == <<hook, app, timers, obs, det, live, audio>>

(***************************************************************************)
(* Bounds of the model                                                     *)
(***************************************************************************)
NumKeys == 2
MaxTimers == 5
LowPitch == 60
HighPitch == 62
Quantum == 500
MaxClicks == 3
MaxFrames == 7
MaxOdd == 1
MaxLiveEvents == 3
MaxRenders == 3
FrameMs == 50
GapMs == 1500

(***************************************************************************)
(* Tonal model (solfege.ts)                                                *)
(***************************************************************************)
keysCircle == <<"C", "G", "D", "A", "E", "B", "F#", "Db", "Ab", "Eb", "Bb", "F">>

KEY_TO_SEMITONE(k) ==
  CASE k = "C" -> 0 [] k = "G" -> 7 [] k = "D" -> 2 [] k = "A" -> 9
    [] k = "E" -> 4 [] k = "B" -> 11 [] k = "F#" -> 6 [] k = "Db" -> 1
    [] k = "Ab" -> 8 [] k = "Eb" -> 3 [] k = "Bb" -> 10 [] k = "F" -> 5
    [] OTHER -> 0

computeRoot(k) == 60 + ((KEY_TO_SEMITONE(k) - (60 % 12) + 12) % 12)

SOLFEGE_DIATONIC == {0, 2, 4, 5, 7, 9, 11}

\* the % of JavaScript: the remainder takes the sign of the dividend
JsRem(a, b) == IF a >= 0 THEN a % b ELSE 0 - ((0 - a) % b)

RelDegreeNoOffset(p, root) == JsRem(p - root, 12)

RelDegree(p, root) == JsRem(p - root + 1200, 12)

Keys == {keysCircle[i] : i \in 1..NumKeys}

NoKey == "none"

(***************************************************************************)
(* Timing constants                                                        *)
(***************************************************************************)
TEMPO_VALUES(s) == CASE s = "slow" -> 900 [] s = "medium" -> 600 [] OTHER -> 400

AUTO_PLAY_INTERVAL(s) == CASE s = "slow" -> 4000 [] s = "medium" -> 3000 [] OTHER -> 1800

\* AudioService.scheduleCadence: four chords, each advancing the running
\* offset by chordDuration + chordGap; the returned length is that offset.
CadenceLen(s) ==
  LET tempo == TEMPO_VALUES(s)
      chordDuration == (9 * tempo) \div 10
      chordGap == tempo \div 10
  IN  4 * (chordDuration + chordGap)

NOTE_MS == 1550
NOTE_START_MS == 10
CADENCE_FLAG_MS == 50
INITIAL_BUFFER_MS == 400
CYCLE_BUFFER_MS == 350

Min(a, b) == IF a < b THEN a ELSE b
Max(a, b) == IF a > b THEN a ELSE b

(***************************************************************************)
(* Timers                                                                  *)
(***************************************************************************)
NoCadence == 0 - 1

\* exact, streak, rc, rk: what the closure of a live-mode timer captured
\* (exact first attempt, liveStreak, liveRepeatCadence, randomKeyChance > 0).
\* slot: which ref of the hook holds the handle ("cad" = cadenceTimeoutRef,
\* "auto" = autoplayTimeoutRef, "none" = handle kept nowhere).
\* cad: what is left of the cadence of the cycle the timer belongs to
\* (NoCadence when that cycle has none).
\* stale: the cycle that created the timer has been cancelled since.
Timer(kind, rem) ==
  [kind |-> kind, rem |-> rem, slot |-> "none", note |-> 0, key |-> NoKey,
   causeNew |-> FALSE, isFirst |-> FALSE, cad |-> NoCadence, stale |-> FALSE,
   pid |-> 0, fired |-> FALSE,
   exact |-> FALSE, streak |-> 0, rc |-> TRUE, rk |-> FALSE]

CadenceKinds == {"cadInitial", "cadAuto", "cadReplay", "againManual"}
NotePlayKinds == CadenceKinds \cup {"noteStart"}
CycleKinds == NotePlayKinds \cup {"noteDone", "replayDone", "interval"}

CountKinds(ts, kinds) == Cardinality({i \in 1..Len(ts) : ts[i].kind \in kinds})

\* window.setTimeout from inside the running callback or handler
addTimer(w, t) ==
  [w EXCEPT !.t = Append(@, [t EXCEPT !.stale = w.o.ctxStale])]

\* ref.current = window.setTimeout(...): the handle the ref held before is
\* overwritten, not cleared
setRefTimer(w, slot, t) ==
  LET unslot(x) == IF x.slot = slot THEN [x EXCEPT !.slot = "none"] ELSE x
      old == [i \in 1..Len(w.t) |-> unslot(w.t[i])]
  IN  [w EXCEPT !.t = Append(old, [t EXCEPT !.slot = slot, !.stale = w.o.ctxStale])]

\* clearTimeout on the two handles the hook keeps; the timers whose handle
\* nobody holds stay pending, and those of the cycle that ends here are
\* remembered as stale
clearTimers(w) ==
  LET kept == SelectSeq(w.t, LAMBDA x : x.slot = "none")
      mark(x) == IF x.kind \in CycleKinds THEN [x EXCEPT !.stale = TRUE] ELSE x
  IN  [w EXCEPT !.t = [i \in 1..Len(kept) |-> mark(kept[i])]]

(***************************************************************************)
(* App glue used by the hook (App component)                               *)
(***************************************************************************)
\* chooseRandomNote: rejection sampling over [lowPitch, highPitch] with the
\* note-mode filter against the current key; seed stands for Math.random.
Candidates(key, noteMode) ==
  {n \in LowPitch..HighPitch :
     LET diatonic == RelDegree(n, computeRoot(key)) \in SOLFEGE_DIATONIC
     IN  /\ (noteMode = "diatonic" => diatonic)
         /\ (noteMode = "non" => ~diatonic)}

RECURSIVE NthSmallest(_, _)
NthSmallest(S, n) ==
  LET m == CHOOSE x \in S : \A y \in S : x <= y
  IN  IF n = 0 THEN m ELSE NthSmallest(S \ {m}, n - 1)

Pick(S, seed) == NthSmallest(S, seed % Cardinality(S))

\* the draws of one call: seed below RangeSize is the accepted candidate, seed
\* RangeSize is the run in which every one of the `attempts` draws was
\* rejected, which needs a pitch of the range that the filter rejects
RangeSize == HighPitch - LowPitch + 1

budgetSpent(cands, seed) ==
  cands = {} \/ (seed >= RangeSize /\ cands # LowPitch..HighPitch)

chooseRandomNoteLowest(w, seed) ==
  LET cands == Candidates(w.a.keyCenter, w.a.noteMode)
  IN  IF budgetSpent(cands, seed) THEN LowPitch - 1 ELSE Pick(cands, seed)

chooseRandomNote(w, seed) ==
  LET cands == Candidates(w.a.keyCenter, w.a.noteMode)
  IN  IF budgetSpent(cands, seed) THEN 0 ELSE Pick(cands, seed)

\* the key picked by the "different key" retry loop
OtherKeys(cur) == Keys \ {cur}

KeyIndex(k) == CHOOSE i \in 1..Len(keysCircle) : keysCircle[i] = k

pickAnyKey(w, seed) == keysCircle[seed + 1]

pickDifferentKey(w, seed) ==
  LET others == {KeyIndex(k) : k \in OtherKeys(w.a.keyCenter)}
  IN  IF others = {} THEN w.a.keyCenter ELSE keysCircle[Pick(others, seed)]

playNote(w, note) ==
  [w EXCEPT !.o.ev.played = note,
            !.o.ev.ovNote = @ \/ w.o.noteWin > 0,
            !.o.ev.early = @ \/ w.o.ctxCad > 0,
            !.o.ev.withCad = @ \/ w.o.ctxCad # NoCadence,
            !.o.noteWin = NOTE_MS]

cadenceVoiceInstrumentOnly(useInstrument) ==
  IF useInstrument THEN "instrument" ELSE "none"

\* AudioService.scheduleCadence: the chords go to the loaded instrument, and
\* to one oscillator per tone when there is none
cadenceVoice(useInstrument) ==
  IF useInstrument THEN "instrument" ELSE "oscillator"

\* chordDuration = 0.9 * tempo, chordGap = 0.1 * tempo
chordDuration(tempo) == (9 * tempo) \div 10

chordGap(tempo) == tempo \div 10

\* seq = [I, IV, V, I]
cadenceChords(root) ==
  <<  <<root, root + 4, root + 7>>, <<root + 5, root + 9, root + 12>>,
      <<root + 7, root + 11, root + 14>>, <<root, root + 4, root + 7>>  >>

advanceOffsetNone(rel, tempo) == rel

advanceOffsetNoGap(rel, tempo) == rel + chordDuration(tempo)

\* rel += chordDuration + chordGap, after the three tones of a chord
advanceOffset(rel, tempo) == rel + chordDuration(tempo) + chordGap(tempo)

\* the service between calls of scheduleCadence
AudioConstructed ==
  [phase |-> "idle", key |-> NoKey, speed |-> "medium", useInstrument |-> FALSE,
   chord |-> 0, tone |-> 0, rel |-> 0, events |-> <<>>, lengthSec |-> 0]

\* entry of AudioService.scheduleCadence: rel = 0, nothing scheduled yet
beginCadence(key, speed, useInstrument) ==
  [AudioConstructed EXCEPT !.phase = "scheduling", !.key = key, !.speed = speed,
                           !.useInstrument = useInstrument,
                           !.chord = 1, !.tone = 1]

\* one pass of the inner forEach: the tone starts at baseTime + rel (at is
\* counted from baseTime); the last tone of a chord advances rel
scheduleTone(a) ==
  LET tempo == TEMPO_VALUES(a.speed)
      n == cadenceChords(computeRoot(a.key))[a.chord][a.tone]
      onset == [note |-> n, at |-> a.rel, duration |-> chordDuration(tempo),
                voice |-> cadenceVoice(a.useInstrument)]
  IN  IF a.tone < 3
      THEN [a EXCEPT !.events = Append(@, onset), !.tone = @ + 1]
      ELSE [a EXCEPT !.events = Append(@, onset), !.tone = 1, !.chord = @ + 1,
                     !.rel = advanceOffset(a.rel, tempo)]

\* return { lengthSec: rel }
returnCadence(a) == [a EXCEPT !.phase = "returned", !.lengthSec = a.rel]

\* scheduleCadence of the App: a cadence of length 0 raises no flag
scheduleCadence(w, keyOverride) ==
  LET len == CadenceLen(w.a.cadenceSpeed)
      key == IF keyOverride = NoKey THEN w.a.keyCenter ELSE keyOverride
      w1 == [w EXCEPT !.a.cadenceActive = TRUE,
                      !.o.ev.cadence = TRUE,
                      !.o.ev.cadKey = key,
                      !.o.ev.voice = cadenceVoice(w.h.loaded),
                      !.o.ev.ovCad = @ \/ w.o.cadWin > 0 \/ w.o.noteWin > 0,
                      !.o.cadWin = len]
  IN  IF cadenceVoice(w.h.loaded) = "none" THEN w
      ELSE addTimer(w1, Timer("cadActiveOff", len + CADENCE_FLAG_MS))

applyKeyCenter(w, k) ==
  [w EXCEPT !.a.keyCenter = k, !.a.currentNote = 0]

\* updateRandomNote once the note is chosen: the random key roll of the
\* note, made when the note is placed
rollRandomKey(w, c, w2) ==
  LET allow == w.h.isPlayingRef \/ w.a.manualUserAction
  IN  IF w.a.mode # "live" /\ w.a.randomKeyOn /\ ~w.a.pendingRandomKey /\ allow
      THEN [w2 EXCEPT !.a.pendingRandomKey = c.rolled,
                      !.a.manualUserAction =
                         IF ~w.h.isPlayingRef THEN FALSE ELSE @]
      ELSE w2

\* the time from the choice of a note whose roll succeeded to the end of
\* that note's playback
markRollWindow(w, w2, play) ==
  IF play /\ w2.a.pendingRandomKey /\ ~w.a.pendingRandomKey
  THEN [w2 EXCEPT !.o.rollWin = NOTE_START_MS + NOTE_MS]
  ELSE w2

placeNote(w, c, play, note) ==
  IF note = 0 THEN [w EXCEPT !.o.ev.skipped = TRUE]
  ELSE
    LET w1 == [w EXCEPT !.a.currentNote = note, !.a.lastPlayedNote = note,
                        !.o.ev.target = TRUE]
    IN  markRollWindow(w,
          rollRandomKey(w, c,
            IF play
            THEN addTimer(w1, [Timer("noteStart", NOTE_START_MS) EXCEPT
                                  !.note = note, !.cad = w.o.ctxCad])
            ELSE w1),
          play)

\* the key whose root the syllable shown for the chosen note is counted from:
\* computeRoot(options?.keyOverride ?? keyCenterRef.current)
labelNote(w, w2, keyOverride) ==
  IF w2.o.ev.target
  THEN [w2 EXCEPT !.o.ev.labelKey =
                     IF keyOverride = NoKey THEN w.a.keyCenter ELSE keyOverride]
  ELSE w2

updateRandomNote(w, c, play, keyOverride) ==
  IF w.a.cadenceActive \/ w.a.noteActive THEN w
  ELSE labelNote(w, placeNote(w, c, play, chooseRandomNote(w, c.seedNote)),
                 keyOverride)

(***************************************************************************)
(* useAutoplayCycle                                                        *)
(***************************************************************************)
playInitial(w, c, causeNewKeyCenter, keyOverride, isFirst) ==
  LET lastKey == IF causeNewKeyCenter /\ keyOverride # NoKey THEN keyOverride
                 ELSE IF w.h.lastKey = NoKey THEN keyOverride
                 ELSE w.h.lastKey
      w1 == [w EXCEPT !.h.lastKey = lastKey]
  IN  [updateRandomNote(w1, c, TRUE,
                        IF causeNewKeyCenter THEN keyOverride ELSE NoKey)
         EXCEPT !.h.firstPlay = IF isFirst THEN FALSE ELSE @]

initialDelayBufferOnly(len) == INITIAL_BUFFER_MS

\* delay = scheduleCadence(keyOverride) * 1000 + 400
initialDelay(len) == len + INITIAL_BUFFER_MS

needCadenceIgnoringRepeat(isFirst, causeNewKeyCenter, repeatCadence) ==
  isFirst \/ causeNewKeyCenter

needCadenceAlways(isFirst, causeNewKeyCenter, repeatCadence) == TRUE

needCadenceIgnoringKeyChange(isFirst, causeNewKeyCenter, repeatCadence) ==
  isFirst \/ repeatCadence

\* needCadenceInitial = isFirst || causeNewKeyCenter || repeatCadenceRef.current
needCadenceInitial(isFirst, causeNewKeyCenter, repeatCadence) ==
  isFirst \/ causeNewKeyCenter \/ repeatCadence

internalStart(w, c, causeNewKeyCenter, keyOverride) ==
  IF ~w.h.loaded
  THEN [w EXCEPT !.h.pendingStart =
           [set |-> TRUE, causeNew |-> causeNewKeyCenter, key |-> keyOverride]]
  ELSE
    LET w1 == clearTimers(w)
        w2 == [w1 EXCEPT !.h.isPlaying = w.h.autoPlayRef]
        isFirst == w.h.firstPlay
        len == CadenceLen(w.a.cadenceSpeed)
    IN  IF needCadenceInitial(isFirst, causeNewKeyCenter, w.a.repeatCadence)
        THEN LET w3 == IF causeNewKeyCenter /\ keyOverride # NoKey
                       THEN applyKeyCenter(w2, keyOverride) ELSE w2
                 w4 == scheduleCadence(w3, keyOverride)
             IN  setRefTimer(w4, "cad",
                   [Timer("cadInitial", initialDelay(len)) EXCEPT
                      !.causeNew = causeNewKeyCenter, !.key = keyOverride,
                      !.isFirst = isFirst, !.cad = len])
        ELSE playInitial(w2, c, causeNewKeyCenter, keyOverride, isFirst)

stopPlayback(w) ==
  clearTimers([w EXCEPT !.h.isPlaying = FALSE, !.o.ev.stopped = TRUE])

onNoteCompleteUnarmed(w) ==
  IF ~w.h.autoPlayRef \/ ~w.h.isPlayingRef THEN w
  ELSE [w EXCEPT !.o.ev.completion = TRUE]

onNoteComplete(w) ==
  IF ~w.h.autoPlayRef \/ ~w.h.isPlayingRef THEN w
  ELSE setRefTimer([w EXCEPT !.o.ev.completion = TRUE], "auto",
                   Timer("interval", AUTO_PLAY_INTERVAL(w.a.autoPlaySpeed)))

needCadenceRepeatOnly(repeatCadence, pendingKey, lastKey) == repeatCadence

\* needCadence = repeatCadenceRef.current || (pendingKeyChangeRef.current
\*   !== null && pendingKeyChangeRef.current !== lastKeyRef.current)
needCadence(repeatCadence, pendingKey, lastKey) ==
  repeatCadence \/ (pendingKey # NoKey /\ pendingKey # lastKey)

\* the callback armed by onNoteComplete
intervalElapsed(w, c) ==
  IF ~w.h.autoPlayRef THEN w
  ELSE
    LET rawKey == IF w.h.pendingKey # NoKey THEN w.h.pendingKey ELSE w.h.lastKey
        w1 == IF w.h.pendingKey # NoKey
              THEN [applyKeyCenter(w, rawKey) EXCEPT
                       !.h.lastKey = w.h.pendingKey, !.h.pendingKey = NoKey]
              ELSE w
        len == CadenceLen(w.a.cadenceSpeed)
    IN  IF needCadence(w.a.repeatCadence, w.h.pendingKey, w.h.lastKey)
        THEN setRefTimer(scheduleCadence(w1, rawKey), "cad",
               [Timer("cadAuto", len + CYCLE_BUFFER_MS) EXCEPT
                  !.key = rawKey, !.cad = len])
        ELSE updateRandomNote(w, c, TRUE, NoKey)

markKeyChange(w, c, newKey, immediate) ==
  IF immediate /\ w.h.autoPlayRef /\ w.h.isPlayingRef
  THEN internalStart([w EXCEPT !.h.pendingKey = NoKey], c, TRUE, newKey)
  ELSE [w EXCEPT !.h.pendingKey = newKey]

wrappedStartSequence(w, c, causeNewKeyCenter, keyOverride) ==
  IF ~causeNewKeyCenter /\ w.h.pendingKey # NoKey
  THEN internalStart([w EXCEPT !.h.pendingKey = NoKey], c, TRUE, w.h.pendingKey)
  ELSE internalStart(w, c, causeNewKeyCenter, keyOverride)

interruptCycle(w) == clearTimers(w)

replayHonoringRepeatCadence(w, note) ==
  IF note = 0 \/ ~w.h.loaded THEN w
  ELSE IF w.a.repeatCadence
  THEN setRefTimer(scheduleCadence(clearTimers(w), w.h.lastKey), "cad",
         [Timer("cadReplay", CadenceLen(w.a.cadenceSpeed) + CYCLE_BUFFER_MS)
            EXCEPT !.note = note, !.cad = CadenceLen(w.a.cadenceSpeed)])
  ELSE setRefTimer(clearTimers(w), "cad",
         [Timer("cadReplay", CYCLE_BUFFER_MS) EXCEPT !.note = note])

replaySameNoteWithCadence(w, note) ==
  IF note = 0 \/ ~w.h.loaded THEN w
  ELSE
    LET w1 == clearTimers(w)
        w2 == IF w.h.pendingKey # NoKey
              THEN [applyKeyCenter(w1, w.h.pendingKey) EXCEPT
                       !.h.lastKey = w.h.pendingKey, !.h.pendingKey = NoKey]
              ELSE w1
        len == CadenceLen(w.a.cadenceSpeed)
    IN  setRefTimer(scheduleCadence(w2, w2.h.lastKey), "cad",
          [Timer("cadReplay", len + CYCLE_BUFFER_MS) EXCEPT
             !.note = note, !.cad = len])

(***************************************************************************)
(* App handlers (App component, unified mode selector version)             *)
(***************************************************************************)
FreshPid(ts) ==
  CHOOSE p \in 1..(Len(ts) + 1) : \A i \in 1..Len(ts) : ts[i].pid # p

\* runManual: safety timer, the start request, then the checkKick poll
runManual(w, c) ==
  LET pid == FreshPid(w.t)
      w1 == addTimer(w, [Timer("safety", 1200) EXCEPT !.pid = pid])
      w2 == wrappedStartSequence(w1, c, FALSE, NoKey)
  IN  addTimer(w2, [Timer("checkKick", 120) EXCEPT !.pid = pid])

runAutoplay(w, c) ==
  wrappedStartSequence([w EXCEPT !.h.autoPlayRef = TRUE], c, FALSE, NoKey)

\* launch of handleNewKeyClick
launchNewKey(w, c, key) ==
  addTimer(wrappedStartSequence(w, c, TRUE, key), Timer("unlock", 5000))

\* initInstrument().then(cont): cont is kept until the instrument is loaded
deferUntilLoaded(w, cont) ==
  [w EXCEPT !.a.loading = TRUE, !.a.thenQueue = Append(@, cont)]

Cont(kind, key) == [kind |-> kind, key |-> key]

runCont(w, c, cont) ==
  CASE cont.kind = "runManual" -> runManual(w, c)
    [] cont.kind = "runAutoplay" -> runAutoplay(w, c)
    [] OTHER -> launchNewKey(w, c, cont.key)

handlePlayClick(w, c) ==
  IF w.h.isPlayingRef
  THEN [stopPlayback(w) EXCEPT !.a.currentNote = 0, !.a.disable = FALSE]
  ELSE IF w.a.noteActive
  THEN [w EXCEPT !.a.pendingManualPlay = TRUE]
  ELSE
    LET w1 == [w EXCEPT !.a.manualUserAction = TRUE]
        kind == IF w.a.mode = "autoplay" THEN "runAutoplay" ELSE "runManual"
    IN  IF w.h.loaded THEN runCont(w1, c, Cont(kind, NoKey))
        ELSE deferUntilLoaded(w1, Cont(kind, NoKey))

handleAgainClick(w) ==
  IF w.a.disable THEN w
  ELSE IF w.a.mode = "manual"
  THEN IF w.a.currentNote = 0 THEN w
       ELSE LET len == CadenceLen(w.a.cadenceSpeed)
                w1 == scheduleCadence([w EXCEPT !.a.disable = TRUE], NoKey)
            IN  addTimer(w1, [Timer("againManual", len + CYCLE_BUFFER_MS) EXCEPT
                                 !.note = w.a.currentNote, !.cad = len])
  ELSE
    LET noteToReplay == IF w.a.currentNote # 0 THEN w.a.currentNote
                        ELSE w.a.lastPlayedNote
    IN  IF noteToReplay = 0 THEN w
        ELSE replaySameNoteWithCadence(
               addTimer([w EXCEPT !.a.disable = TRUE, !.h.replayHandler = TRUE],
                        Timer("unlock", 6000)),
               noteToReplay)

handleNewKeyClick(w, c) ==
  IF w.a.disable THEN w
  ELSE
    LET key == pickDifferentKey(w, c.seedKey)
        w1 == markKeyChange(w, c, key, FALSE)
        w2 == [w1 EXCEPT !.a.disable = TRUE]
        w3 == IF w.a.mode = "autoplay" THEN interruptCycle(w2) ELSE w2
    IN  IF w.h.loaded THEN launchNewKey(w3, c, key)
        ELSE deferUntilLoaded(w3, Cont("launch", key))

changeMode(w, next) ==
  LET w1 == IF w.a.mode = "autoplay" /\ w.h.isPlayingRef
            THEN [stopPlayback(w) EXCEPT !.a.currentNote = 0]
            ELSE w
      \* entering live: the effect on instrumentActive stops a running drill
      w2 == IF next = "live" /\ w1.h.isPlaying THEN stopPlayback(w1) ELSE w1
      autoPlayChanged == (next = "autoplay") # (w.a.mode = "autoplay")
  IN  [w2 EXCEPT !.a.mode = next,
                 !.h.autoPlayRef = IF autoPlayChanged THEN next = "autoplay" ELSE @]

\* randomKeyChange(resumeAuto = true), called when a note completes
randomKeyChange(w, c) ==
  LET key == pickDifferentKey(w, c.seedKey)
  IN  IF w.a.mode = "live" THEN w
      ELSE onNoteComplete(markKeyChange(w, c, key, FALSE))

\* the load-completion path: the continuations run with the closures of the
\* render in which the instrument was not loaded, then the effect on
\* instrumentLoaded runs the deferred start
RECURSIVE runConts(_, _, _)
runConts(w, c, q) ==
  IF q = <<>> THEN w ELSE runConts(runCont(w, c, Head(q)), c, Tail(q))

startPendingKeepingSlot(w, c) ==
  IF w.h.pendingStart.set
  THEN internalStart(w, c, w.h.pendingStart.causeNew, w.h.pendingStart.key)
  ELSE w

\* the effect on instrumentLoaded
startPending(w, c) ==
  LET p == w.h.pendingStart
  IN  IF p.set
      THEN internalStart([w EXCEPT !.h.pendingStart.set = FALSE], c, p.causeNew, p.key)
      ELSE w

instrumentLoadedEffect(w, c) ==
  startPending([runConts([w EXCEPT !.a.thenQueue = <<>>], c, w.a.thenQueue)
                  EXCEPT !.h.loaded = TRUE, !.a.loading = FALSE], c)

(***************************************************************************)
(* Timer callbacks                                                         *)
(***************************************************************************)
noteStartFired(w, t) ==
  addTimer([playNote(w, t.note) EXCEPT !.a.noteActive = TRUE],
           Timer("noteDone", NOTE_MS))

noteDoneFired(w, c) ==
  LET w1 == [w EXCEPT !.a.noteActive = FALSE, !.o.ev.done = TRUE]
      w2 == IF w.a.pendingRandomKey
            THEN randomKeyChange([w1 EXCEPT !.a.pendingRandomKey = FALSE], c)
            ELSE IF w.a.pendingManualPlay
            THEN wrappedStartSequence(
                   [w1 EXCEPT !.a.pendingManualPlay = FALSE,
                              !.a.manualUserAction = TRUE], c, FALSE, NoKey)
            ELSE IF w.h.isPlayingRef THEN onNoteComplete(w1)
            ELSE w1
  IN  [w2 EXCEPT !.a.disable = FALSE]

cadReplayFired(w, t) ==
  addTimer(playNote(w, t.note), Timer("replayDone", NOTE_MS))

replayDoneFired(w) ==
  LET w1 == onNoteComplete([w EXCEPT !.o.ev.done = TRUE])
  IN  IF w.h.replayHandler
      THEN [w1 EXCEPT !.a.disable = FALSE, !.h.replayHandler = FALSE,
                      !.o.ev.completion = TRUE]
      ELSE w1

againManualFired(w, t) ==
  addTimer(playNote(w, t.note), Timer("againUnlock", NOTE_MS))

safetyFired(w, c, t) ==
  IF w.a.cadenceActive \/ w.a.noteActive THEN w
  ELSE
    LET mark(x) == IF x.kind = "checkKick" /\ x.pid = t.pid
                   THEN [x EXCEPT !.fired = TRUE] ELSE x
        w1 == [w EXCEPT !.t = [i \in 1..Len(w.t) |-> mark(w.t[i])]]
        w2 == markKeyChange(w1, c, w.a.keyCenter, FALSE)
    IN  wrappedStartSequence(w2, c, FALSE, NoKey)

checkKickFired(w, t) ==
  IF w.a.cadenceActive \/ w.a.noteActive
  THEN [w EXCEPT !.t = SelectSeq(@, LAMBDA x : ~(x.kind = "safety" /\ x.pid = t.pid))]
  ELSE IF ~t.fired
  THEN addTimer(w, [Timer("checkKick", 150) EXCEPT !.pid = t.pid])
  ELSE w

fireTimer(w, c, t) ==
  CASE t.kind = "cadInitial" -> playInitial(w, c, t.causeNew, t.key, t.isFirst)
    [] t.kind = "cadAuto" -> updateRandomNote(w, c, TRUE, t.key)
    [] t.kind = "cadReplay" -> cadReplayFired(w, t)
    [] t.kind = "replayDone" -> replayDoneFired(w)
    [] t.kind = "interval" -> intervalElapsed(w, c)
    [] t.kind = "cadActiveOff" -> [w EXCEPT !.a.cadenceActive = FALSE]
    [] t.kind = "noteStart" -> noteStartFired(w, t)
    [] t.kind = "noteDone" -> noteDoneFired(w, c)
    [] t.kind = "againManual" -> againManualFired(w, t)
    [] t.kind = "againUnlock" -> [w EXCEPT !.a.disable = FALSE]
    [] t.kind = "unlock" -> [w EXCEPT !.a.disable = FALSE]
    [] t.kind = "safety" -> safetyFired(w, c, t)
    [] OTHER -> checkKickFired(w, t)

(***************************************************************************)
(* Pitch detection pipeline (useInstrumentMode)                            *)
(* RMS values are in millionths, clarity in thousandths, frequencies in    *)
(* Hz, times in ms.  A time that the code keeps as a timestamp is kept as  *)
(* the age of that timestamp, NoTime when the ref holds null / 0.          *)
(***************************************************************************)
DETECT_MIN == 28
DETECT_MAX == 98
CLEAR_ON_IDLE_MS == 1400
PROVISIONAL_MS == 150
MAX_RECENT == 6
MAX_CLARITY_HISTORY == 12
SensAuto == 3
NoTime == 0 - 1

CLARITY_THRESHOLDS == <<900, 880, 840>>
RMS_THRESHOLDS == <<12000, 9000, 5000>>
STABLE_FRAMES == <<4, 3, 2>>
STABLE_MS == <<140, 100, 70>>
JITTER_SPAN == <<1, 1, 2>>
CLARITY_RANGE == <<50, 70, 90>>

\* the thresholds a render derives from the sensitivity setting and, in
\* auto mode, from the ambient estimates
DetProfile(sens, amb) ==
  LET isAuto == sens = SensAuto
      idx == IF isAuto THEN 2 ELSE sens + 1
      fixed == [minClarity |-> CLARITY_THRESHOLDS[idx], amp |-> RMS_THRESHOLDS[idx],
                frames |-> STABLE_FRAMES[idx], ms |-> STABLE_MS[idx],
                span |-> JITTER_SPAN[idx], crange |-> CLARITY_RANGE[idx],
                isAuto |-> isAuto]
      a1 == [fixed EXCEPT !.amp = Min(25000, amb.rms * 3 + 2000),
                          !.minClarity = Min(970, Max(860, amb.clarity + 250)),
                          !.crange = 60]
  IN  IF ~isAuto THEN fixed
      ELSE IF amb.rms < 3000
      THEN [a1 EXCEPT !.frames = 4, !.ms = 150, !.span = 1]
      ELSE IF amb.rms > 15000
      THEN [a1 EXCEPT !.frames = 3, !.ms = 90, !.span = 2]
      ELSE a1

\* p + a * (n - p), a in hundredths
ema(p, n, a) == p + (a * (n - p)) \div 100

\* Math.round(69 + 12 * log2(f / 440)) on the frequencies of the feed
freqToMidi(f) ==
  CASE f = 262 -> 60 [] f = 277 -> 61 [] f = 311 -> 63 [] f = 1661 -> 92
    [] f = 2489 -> 99 [] OTHER -> 100

SeqMax(q) == CHOOSE m \in {q[i] : i \in 1..Len(q)} : \A i \in 1..Len(q) : q[i] <= m
SeqMin(q) == CHOOSE m \in {q[i] : i \in 1..Len(q)} : \A i \in 1..Len(q) : m <= q[i]

\* push, then shift once the window is longer than cap
Push(q, x, cap) ==
  LET r == Append(q, x) IN IF Len(r) > cap THEN Tail(r) ELSE r

Older(age, dt, cap) == IF age = NoTime THEN NoTime ELSE Min(cap, age + dt)

AgeCap == CLEAR_ON_IDLE_MS + 1

\* the clock moves on by dt before the step runs
Tick(d, dt) ==
  [d EXCEPT !.stableStart = Older(@, dt, AgeCap),
            !.lastStableAt = Older(@, dt, AgeCap),
            !.runAge = Older(@, dt, AgeCap),
            !.heldAge = Older(@, dt, AgeCap),
            !.lowFor = Older(@, dt, AgeCap)]

\* lines 451-472: the candidate passed the amplitude gate
trackCandidate(d, midi, clarity) ==
  LET cl == d.cl
      ch == Push(d.ch, clarity, MAX_CLARITY_HISTORY)
      cRange == SeqMax(ch) - SeqMin(ch)
      recent == Push(d.recent, midi, MAX_RECENT)
      span == SeqMax(recent) - SeqMin(recent)
      clarityStable == cRange <= cl.crange \/ Len(recent) < 4
      d1 == [d EXCEPT !.ch = ch, !.recent = recent, !.acc = TRUE]
      start == IF d.stableStart = NoTime
                    \/ (d.lastDetected # 0 /\ d.lastDetected # midi)
               THEN 0 ELSE d.stableStart
      framesOK == Len(recent) >= cl.frames /\ span <= cl.span
      timeOK == start # NoTime /\ start >= cl.ms
      d2 == [d1 EXCEPT !.stableStart = start, !.hit = TRUE,
                       !.run = @ + 1,
                       !.runAge = IF d.run = 0 THEN 0 ELSE @]
  IN  IF span <= cl.span /\ clarityStable
      THEN IF framesOK /\ timeOK /\ d.lastDetected # midi
           THEN [d2 EXCEPT !.lastDetected = midi, !.detected = midi,
                           !.lastStableAt = 0, !.promoted = TRUE,
                           !.over = d.lastDetected]
           ELSE d2
      ELSE [d1 EXCEPT !.stableStart = NoTime]

IdleQuietTypo(rms, amp) == rms * 1000 < amp * 50

\* rms < AMP_THRESHOLD * 0.5
IdleQuiet(rms, amp) == rms * 100 < amp * 50

\* lines 488-492
idleFade(d, rms) ==
  IF d.lastStableAt # NoTime /\ d.lastStableAt > CLEAR_ON_IDLE_MS
       /\ IdleQuiet(rms, d.cl.amp)
  THEN [d EXCEPT !.lastStableAt = NoTime, !.lastDetected = 0, !.detected = 0,
                 !.eff = 0, !.cleared = TRUE]
  ELSE d

\* lines 493-502; rawMidiState and effectiveMidi are the values the running
\* callback closed over
effectiveHighlight(d) ==
  IF d.lastDetected # 0
  THEN IF d.closEff # d.lastDetected THEN [d EXCEPT !.eff = d.lastDetected] ELSE d
  ELSE IF d.closRaw # 0
  THEN LET start == IF d.stableStart = NoTime THEN 0 ELSE d.stableStart
           d1 == [d EXCEPT !.stableStart = start]
       IN  IF start > PROVISIONAL_MS /\ d.closEff # d.closRaw
           THEN [d1 EXCEPT !.eff = d.closRaw] ELSE d1
  ELSE IF d.closEff # 0 THEN [d EXCEPT !.eff = 0]
  ELSE d

inDetectWindowOpenTop(midi) == midi >= DETECT_MIN

\* midi >= DETECT_MIN && midi <= DETECT_MAX
inDetectWindow(midi) == midi >= DETECT_MIN /\ midi <= DETECT_MAX

\* one animation frame; f is what the analyser and the pitch estimator give
detectionStep(d, f) ==
  LET cl == d.cl
      attemptPitch == f.rms * 100 > cl.amp * 45
      voiced == f.clarity >= cl.minClarity /\ f.freq > 40 /\ f.freq < 2500
      midi == freqToMidi(f.freq)
      inWindow == inDetectWindow(midi)
      gate == IF midi >= 92 THEN 50 ELSE IF midi >= 84 THEN 65 ELSE 100
      low == f.rms * 100 < cl.amp * 50
      d0 == [d EXCEPT !.promoted = FALSE, !.cleared = FALSE, !.hit = FALSE,
                      !.acc = FALSE, !.outside = FALSE,
                      !.lowFor = IF low THEN (IF @ = NoTime THEN 0 ELSE @)
                                 ELSE NoTime]
      d1 == IF attemptPitch
            THEN IF voiced
                 THEN IF inWindow
                      THEN LET r == [d0 EXCEPT !.raw = midi]
                           IN  IF f.rms * 100 >= cl.amp * gate
                               THEN trackCandidate(r, midi, f.clarity)
                               ELSE [r EXCEPT !.ch = <<>>]
                      ELSE [d0 EXCEPT !.outside = TRUE]
                 ELSE IF cl.isAuto /\ f.clarity < 800
                 THEN [d0 EXCEPT !.amb.clarity = ema(@, f.clarity, 4),
                                 !.amb.rms = ema(@, f.rms, 5)]
                 ELSE d0
            ELSE IF cl.isAuto
            THEN [d0 EXCEPT !.amb.rms = ema(@, f.rms, 2)]
            ELSE d0
      d2 == effectiveHighlight(idleFade(d1, f.rms))
      d3 == [d2 EXCEPT !.osc = @ /\ d2.acc /\ midi # d.prev
                                 /\ Cardinality(d.seen \cup {midi}) <= 2,
                       !.prev = midi, !.seen = @ \cup {midi}]
      same == d.held > 0 /\ midi = d.prev
  IN  IF d3.hit
      THEN [d3 EXCEPT !.held = IF same THEN Min(MAX_RECENT, @ + 1) ELSE 1,
                      !.heldAge = IF same THEN @ ELSE 0]
      ELSE [d3 EXCEPT !.run = 0, !.runAge = NoTime,
                      !.held = 0, !.heldAge = NoTime]

\* stopDetectionLoop: cancelAnimationFrame on the handle, when there is one
stopDetectionLoop(d) == [d EXCEPT !.running = FALSE]

\* cleanupStream: the loop is cancelled, the tracks are stopped, the analyser
\* is dropped and listening is withdrawn; a pending getUserMedia is left alone
cleanupStream(d) ==
  [stopDetectionLoop(d) EXCEPT !.stream = "none", !.listening = FALSE]

\* startDetectionLoop: the loop runs the detectionStep of the current render
startDetectionLoop(d) ==
  [stopDetectionLoop(d) EXCEPT !.running = TRUE, !.cl = DetProfile(d.sens, d.amb),
            !.closRaw = d.raw, !.closEff = d.eff]

\* initMic up to its await: an existing stream is stopped, the loop and the
\* analyser are left as they are, getUserMedia is pending
initMicRequest(d) ==
  [d EXCEPT !.mic = "awaiting",
            !.stream = IF @ = "none" THEN "none" ELSE "ended"]

\* initMic after getUserMedia resolved: analyser on the new stream,
\* listening, the loop (re)started
initMicGranted(d) ==
  [startDetectionLoop(d) EXCEPT !.mic = "granted", !.stream = "live",
                                !.listening = TRUE]

\* the catch branch without its setState
initMicDeniedUnreported(d) == [d EXCEPT !.mic = "denied"]

\* initMic after getUserMedia rejected: the catch branch
initMicDenied(d) ==
  [d EXCEPT !.mic = "denied", !.error = TRUE, !.listening = FALSE]

\* startMode after its awaits: initMic has returned, by either branch, and
\* the mode is flagged active; changeDevice awaits initMic and sets nothing
startModeDone(d) ==
  [d EXCEPT !.active = @ \/ d.inStart, !.inStart = FALSE]

\* stopMode: cleanupStream, then the flag is withdrawn; a startMode that is
\* still awaiting goes on when its request settles
stopMode(d) == [cleanupStream(d) EXCEPT !.active = FALSE]

DetConstructed(sens) ==
  [running |-> FALSE, sens |-> sens, amb |-> [rms |-> 2500, clarity |-> 500],
   cl |-> DetProfile(sens, [rms |-> 2500, clarity |-> 500]),
   closRaw |-> 0, closEff |-> 0, recent |-> <<>>, ch |-> <<>>,
   stableStart |-> NoTime, lastStableAt |-> NoTime, lastDetected |-> 0,
   detected |-> 0, raw |-> 0, eff |-> 0,
   run |-> 0, runAge |-> NoTime, held |-> 0, heldAge |-> NoTime, over |-> 0,
   lowFor |-> NoTime, promoted |-> FALSE,
   cleared |-> FALSE, hit |-> FALSE, acc |-> FALSE, osc |-> TRUE, prev |-> 0,
   seen |-> {}, n |-> 0, odd |-> 0, act |-> "init",
   mic |-> "idle", stream |-> "none", listening |-> FALSE, error |-> FALSE,
   active |-> FALSE, inStart |-> FALSE,
   stopped |-> FALSE, idle |-> FALSE, outside |-> FALSE]

(***************************************************************************)
(* Live mode: target flow and attempt classifier (App component)           *)
(* A world x carries the live state in x.l next to the drill state.        *)
(* Timestamps are kept as what is left of them: disableFor is the time     *)
(* until evaluationDisableUntilRef, up the time since the component was    *)
(* mounted (lastDetectedNullAtRef is written at mount only).  Pitch 0      *)
(* stands for null.                                                        *)
(***************************************************************************)
STREAK_TARGET == 10
NULL_RESET_MS == 350
CADENCE_BLOCK_MS == 1500
TARGET_NOTE_DELAY_MS == 120
DIRECT_BLOCK_MS == 550
DIRECT_NOTE_DELAY_MS == 80
PROVISIONAL_NOTE_DELAY_MS == 200
NOTE_SETTLE_MS == 650
FIRST_SUCCESS_MS == 850
CONGRATS_MS == 2200
LATER_SUCCESS_MS == 900
AGAIN_UNLOCK_MS == 4000
NEWKEY_UNLOCK_MS == 4200

LiveKinds == {"targetNote", "afterFirst", "congrats", "afterLater", "liveUnlock"}

LiveConstructed ==
  [active |-> FALSE, starting |-> 0, running |-> FALSE, target |-> 0,
   feedback |-> "idle", attempts |-> 0, firstRecorded |-> FALSE, total |-> 0,
   firstCorrect |-> 0, streak |-> 0, congrats |-> FALSE, strict |-> TRUE,
   repeatCadence |-> TRUE, disableFor |-> 0, lastEvaluated |-> 0, up |-> 0,
   stable |-> 0, n |-> 0,
   tried |-> FALSE, paused |-> FALSE,
   ev |-> [act |-> "init", runs |-> <<>>, started |-> FALSE, unsettled |-> FALSE,
           rolled |-> FALSE]]

resetLiveStateAndStreak(x) ==
  [x EXCEPT !.l.target = 0, !.l.feedback = "idle", !.l.attempts = 0,
            !.l.firstRecorded = FALSE, !.l.lastEvaluated = 0, !.l.streak = 0,
            !.l.tried = FALSE]

resetLiveState(x) ==
  [x EXCEPT !.l.target = 0, !.l.feedback = "idle", !.l.attempts = 0,
            !.l.firstRecorded = FALSE, !.l.lastEvaluated = 0,
            !.l.tried = FALSE]

\* chooseLiveTarget: the user's range cut to the detection window, then the
\* same rejection sampling as chooseRandomNote
chooseLiveTarget(x, seed) ==
  LET effLow == Max(LowPitch, DETECT_MIN)
      effHigh == Min(HighPitch, DETECT_MAX)
      cands == {n \in Candidates(x.a.keyCenter, x.a.noteMode) :
                  n >= effLow /\ n <= effHigh}
  IN  IF cands = {} THEN 0 ELSE Pick(cands, seed)

\* startNewLiveTarget of a render whose liveTarget was liveTarget
doStart(x, targetMidi) ==
  [x EXCEPT !.l.target = targetMidi, !.l.feedback = "awaiting",
            !.l.attempts = 0, !.l.firstRecorded = FALSE,
            !.l.lastEvaluated = 0, !.l.ev.started = TRUE]

\* startNewLiveTarget once the target is known
serveTarget(x, tgt, reuseSame, suppressCadence) ==
  LET counted == [x EXCEPT !.l.total = IF reuseSame THEN @ ELSE @ + 1,
                           !.l.tried = reuseSame /\ @]
      len == CadenceLen(x.a.cadenceSpeed)
  IN  IF tgt = 0 THEN x
      ELSE IF ~suppressCadence
      THEN addTimer([scheduleCadence(doStart(counted, tgt), NoKey) EXCEPT
                       !.l.disableFor = len + CADENCE_BLOCK_MS],
                    [Timer("targetNote", len + TARGET_NOTE_DELAY_MS) EXCEPT
                       !.note = tgt, !.cad = len])
      ELSE addTimer([doStart(counted, tgt) EXCEPT !.l.disableFor = DIRECT_BLOCK_MS],
                    [Timer("targetNote", DIRECT_NOTE_DELAY_MS) EXCEPT !.note = tgt])

startNewLiveTarget(x, liveTarget, reuseSame, suppressCadence, seed) ==
  serveTarget(x, IF reuseSame THEN liveTarget ELSE chooseLiveTarget(x, seed),
              reuseSame, suppressCadence)

Abs(n) == IF n < 0 THEN 0 - n ELSE n

\* the attempt against the target, as the evaluation effect computes it
classify(liveTarget, stable, key) ==
  LET root == computeRoot(key)
      targetRel == RelDegree(liveTarget, root)
      userRel == RelDegree(stable, root)
  IN  [sameDegreeDifferentOctave |-> stable # liveTarget /\ userRel = targetRel,
       distance |-> Abs(stable - liveTarget)]

thirdMiss(liveAttemptsOnCurrent) == liveAttemptsOnCurrent + 1 >= 3

\* if (liveAttemptsOnCurrent + 1 >= 2)
secondMiss(liveAttemptsOnCurrent) == liveAttemptsOnCurrent + 1 >= 2

creditFirstSuccessCountOnly(x, distance) ==
  [x EXCEPT !.l.firstCorrect = IF distance = 0 THEN @ + 1 ELSE @]

\* if (distance === 0) { setLiveFirstAttemptCorrectCount(c => c + 1);
\* setLiveStreak(s => s + 1); }
creditFirstSuccess(x, distance) ==
  [x EXCEPT !.l.firstCorrect = IF distance = 0 THEN @ + 1 ELSE @,
            !.l.streak = IF distance = 0 THEN @ + 1 ELSE @]

\* if (liveStrict && liveStreak !== 0) setLiveStreak(0)
streakAfterNear(liveStreak, liveStrict) == IF liveStrict THEN 0 ELSE liveStreak

evaluateAttempt(x) ==
  LET l == x.l
      c == classify(l.target, l.stable, x.a.keyCenter)
      x0 == [x EXCEPT !.l.lastEvaluated = l.stable, !.l.attempts = @ + 1,
                      !.l.tried = TRUE]
      firstAttemptSuccess ==
        c.distance = 0 \/ (c.sameDegreeDifferentOctave /\ ~l.strict)
      next(kind, ms) ==
        [Timer(kind, ms) EXCEPT !.exact = c.distance = 0, !.streak = l.streak,
                                !.rc = l.repeatCadence, !.rk = x.a.randomKeyOn]
  IN  IF ~l.firstRecorded
      THEN LET x1 == [x0 EXCEPT !.l.firstRecorded = TRUE]
           IN  IF firstAttemptSuccess
               THEN addTimer(
                      creditFirstSuccess([x1 EXCEPT !.l.feedback = "correct"],
                                         c.distance),
                      next("afterFirst", FIRST_SUCCESS_MS))
               ELSE IF c.sameDegreeDifferentOctave
               THEN [x1 EXCEPT !.l.feedback = "near",
                               !.l.streak = streakAfterNear(@, l.strict)]
               ELSE [x1 EXCEPT !.l.feedback = "wrong", !.l.streak = 0]
      ELSE IF c.distance = 0
      THEN addTimer([x0 EXCEPT !.l.feedback = "correct"],
                    next("afterLater", LATER_SUCCESS_MS))
      ELSE IF secondMiss(l.attempts)
      THEN startNewLiveTarget(x0, l.target, TRUE, ~l.repeatCadence, 0)
      ELSE x0

evaluationDueDespiteDuplicate(x) ==
  /\ x.l.disableFor = 0
  /\ x.l.target # 0
  /\ x.l.feedback # "correct"

\* the guards in front of the evaluation
evaluationDue(x) ==
  /\ x.l.disableFor = 0
  /\ x.l.target # 0
  /\ x.l.feedback # "correct"
  /\ x.l.stable # x.l.lastEvaluated

Metrics(l) == <<l.feedback, l.attempts, l.streak, l.total, l.firstCorrect>>

\* the effect on the stabilized pitch; every run on a non-null pitch is
\* recorded with what it saw and what it did
\* a run of the effect on a non-null pitch: from x to y, evaluating or not
recordRun(x, y, evaluated) ==
  LET l == x.l
      c == classify(l.target, l.stable, x.a.keyCenter)
      run == [stable |-> l.stable, target |-> l.target, key |-> x.a.keyCenter,
              blocked |-> l.disableFor, was |-> l.feedback,
              last |-> l.lastEvaluated, first |-> ~l.firstRecorded,
              strict |-> l.strict, evaluated |-> evaluated,
              exact |-> c.distance = 0, near |-> c.sameDegreeDifferentOctave,
              feedback |-> y.l.feedback, changed |-> Metrics(y.l) # Metrics(l),
              tried |-> l.tried,
              credited |-> \/ y.l.firstCorrect > l.firstCorrect
                           \/ y.l.streak > l.streak]
  IN  [y EXCEPT !.l.ev.runs = Append(@, run)]

liveEvaluation(x) ==
  IF ~x.l.active THEN x
  ELSE IF x.l.stable = 0
  THEN IF x.l.up > NULL_RESET_MS THEN [x EXCEPT !.l.lastEvaluated = 0] ELSE x
  ELSE IF evaluationDue(x) THEN recordRun(x, evaluateAttempt(x), TRUE)
  ELSE recordRun(x, x, FALSE)

\* the values the evaluation effect depends on
Deps(l) ==
  <<l.active, l.stable, l.target, l.feedback, l.firstRecorded, l.attempts,
    l.streak, l.strict, l.repeatCadence>>

\* one render after prev: the evaluation effect, then the effect on
\* instrumentActive
activeEffect(prev, e) ==
  IF prev.l.active = e.l.active THEN e
  ELSE resetLiveState(IF e.l.active /\ e.h.isPlaying THEN stopPlayback(e) ELSE e)

render(prev, x) ==
  activeEffect(prev, IF Deps(prev.l) # Deps(x.l) THEN liveEvaluation(x) ELSE x)

\* the renders that follow a handler, until the effects change nothing
\* (at most MaxRenders of them are followed)
RECURSIVE settleFrom(_, _, _)
settleFrom(prev, x, k) ==
  IF Deps(prev.l) = Deps(x.l) THEN x
  ELSE IF k = 0 THEN [x EXCEPT !.l.ev.unsettled = TRUE]
  ELSE settleFrom(x, render(prev, x), k - 1)

settle(prev, x) == settleFrom(prev, x, MaxRenders)

\* newKeyCenter as the evaluation effect holds it: of a render in which
\* instrumentActive is true, where the key it picks is dropped
newKeyCenter(x) == x

newKeyCenterDifferent(x, seedKey) ==
  applyKeyCenter(x, pickDifferentKey(x, seedKey))

liveHandlePlayClick(x, seed) ==
  IF x.l.running
  THEN [x EXCEPT !.l.running = FALSE, !.l.feedback = "idle", !.a.disable = FALSE,
                 !.l.paused = TRUE]
  ELSE startNewLiveTarget([resetLiveState(x) EXCEPT !.l.running = TRUE,
                                                    !.l.paused = FALSE],
                          x.l.target, FALSE, FALSE, seed)

liveHandleAgainClick(x) ==
  IF ~x.l.running \/ x.l.target = 0 THEN x
  ELSE startNewLiveTarget(
         addTimer([x EXCEPT !.a.disable = TRUE], Timer("liveUnlock", AGAIN_UNLOCK_MS)),
         x.l.target, TRUE, FALSE, 0)

liveHandleNewKeyClick(x, seedKey, seed) ==
  LET x1 == addTimer([x EXCEPT !.a.disable = TRUE],
                     Timer("liveUnlock", NEWKEY_UNLOCK_MS))
      x2 == newKeyCenterDifferent(x1, seedKey)
  IN  IF x.l.running THEN startNewLiveTarget(x2, x.l.target, FALSE, FALSE, seed)
      ELSE x2

\* changeMode with the effect on mode: startMode on entering live, stopMode
\* on leaving it with the microphone active
liveChangeMode(x, next) ==
  LET x1 == [changeMode(x, next) EXCEPT !.l.running = FALSE, !.l.paused = FALSE]
  IN  IF next = "live"
      THEN IF x.l.active THEN x1 ELSE [x1 EXCEPT !.l.starting = @ + 1]
      ELSE IF x.l.active THEN [x1 EXCEPT !.l.active = FALSE] ELSE x1

\* the callbacks of the live timers
targetNoteFired(x, t) ==
  [playNote(x, t.note) EXCEPT
     !.l.disableFor = PROVISIONAL_NOTE_DELAY_MS + NOTE_SETTLE_MS]

afterFirstFired(x, t, rolled, seed) ==
  LET prospectiveStreak == IF t.exact THEN t.streak + 1 ELSE t.streak
  IN  IF prospectiveStreak >= STREAK_TARGET
      THEN addTimer([x EXCEPT !.l.congrats = TRUE],
                    [Timer("congrats", CONGRATS_MS) EXCEPT !.rc = t.rc])
      ELSE IF t.rk /\ rolled
      THEN startNewLiveTarget([newKeyCenter(x) EXCEPT !.l.ev.rolled = TRUE],
                              0, FALSE, FALSE, seed)
      ELSE startNewLiveTarget(x, 0, FALSE, ~t.rc, seed)

congratsFired(x, t, seed) ==
  startNewLiveTarget(
    [newKeyCenter([x EXCEPT !.l.congrats = FALSE]) EXCEPT !.l.streak = 0],
    0, FALSE, ~t.rc, seed)

afterLaterFired(x, t, seed) ==
  startNewLiveTarget(x, 0, FALSE, ~t.rc, seed)

liveUnlockFired(x) == [x EXCEPT !.a.disable = FALSE]

(***************************************************************************)
(* Drill cycle: state machine                                              *)
(***************************************************************************)
Modes == {"manual", "autoplay", "live"}
Speeds == {"medium"}

BlankEv ==
  [act |-> "init", played |-> 0, cadence |-> FALSE, cadKey |-> NoKey,
   labelKey |-> NoKey, voice |-> "none",
   target |-> FALSE, ovNote |-> FALSE, ovCad |-> FALSE, early |-> FALSE,
   withCad |-> FALSE, skipped |-> FALSE, done |-> FALSE,
   completion |-> FALSE, stale |-> FALSE, effect |-> FALSE, stopped |-> FALSE]

\* the outcomes of Math.random that a handler can see
Choices ==
  [seedNote : 0..(IF obs.scarce THEN RangeSize ELSE RangeSize - 1),
   rolled : IF app.randomKeyOn THEN BOOLEAN ELSE {FALSE},
   seedKey : 0..Max(0, NumKeys - 2)]

World(act) ==
  [h |-> hook, a |-> app, t |-> timers,
   o |-> [obs EXCEPT !.ev = [BlankEv EXCEPT !.act = act]]]

\* a user action: the model follows at most MaxClicks of them
Click(act) == [World(act) EXCEPT !.o.clicks = @ + 1]

\* the user picks the settings before the first drill request; these choices
\* are not counted
Setup == obs.clicks = 0 /\ timers = <<>> /\ ~hook.pendingStart.set

Setting(act) == IF Setup THEN World(act) ELSE Click(act)

\* the handler has returned: React re-renders and the effects that mirror
\* isPlaying into the refs run
Idle(ts) == CountKinds(ts, CycleKinds \cup {"cadActiveOff"}) = 0

StartCalls == {"Play", "Again", "NewKey"}

Commit(w) ==
  /\ Len(w.t) <= MaxTimers
  /\ Len(w.a.thenQueue) <= 2
  /\ hook' = [w.h EXCEPT !.isPlayingRef = w.h.isPlaying]
  /\ app' = w.a
  /\ timers' = w.t
  /\ obs' = [w.o EXCEPT !.ctxStale = FALSE, !.ctxCad = NoCadence,
                        !.sync = IF w.o.ev.act \in StartCalls THEN @ ELSE Idle(w.t)]
  /\ UNCHANGED <<det, live, audio>>

HookConstructed ==
  [isPlaying |-> FALSE, isPlayingRef |-> FALSE, autoPlayRef |-> TRUE,
   firstPlay |-> TRUE,
   pendingStart |-> [set |-> FALSE, causeNew |-> FALSE, key |-> NoKey],
   lastKey |-> NoKey, pendingKey |-> NoKey, loaded |-> FALSE,
   replayHandler |-> FALSE]

AppConstructed(cs, as) ==
  [mode |-> "autoplay", keyCenter |-> "C", currentNote |-> 0,
   lastPlayedNote |-> 0, disable |-> FALSE, repeatCadence |-> TRUE,
   randomKeyOn |-> FALSE, cadenceActive |-> FALSE,
   noteActive |-> FALSE, pendingRandomKey |-> FALSE,
   manualUserAction |-> FALSE, pendingManualPlay |-> FALSE,
   mounted |-> TRUE, loading |-> FALSE, thenQueue |-> <<>>,
   cadenceSpeed |-> cs, autoPlaySpeed |-> as, noteMode |-> "diatonic"]

ObsConstructed ==
  [noteWin |-> 0, cadWin |-> 0, rollWin |-> 0, ctxStale |-> FALSE,
   ctxCad |-> NoCadence, clicks |-> 0, sync |-> TRUE, scarce |-> FALSE,
   ev |-> BlankEv]

DrillInit ==
  /\ hook = HookConstructed
  /\ \E cs \in Speeds, as \in Speeds : app = AppConstructed(cs, as)
  /\ timers = <<>>
  /\ obs = ObsConstructed

DetIdle == det = DetConstructed(1)
LiveIdle == live = LiveConstructed

AudioIdle == audio = AudioConstructed

Init == DrillInit /\ DetIdle /\ LiveIdle /\ AudioIdle

CanClick == app.mounted /\ obs.clicks < MaxClicks

UserReady == CanClick /\ app.mode # "live"

PlayClick ==
  /\ UserReady /\ ~app.loading /\ ~hook.isPlayingRef
  /\ \E c \in Choices : Commit(handlePlayClick(Click("Play"), c))

StopClick ==
  /\ UserReady /\ ~app.loading /\ hook.isPlayingRef
  /\ \E c \in Choices : Commit(handlePlayClick(Click("Stop"), c))

AgainClick ==
  /\ UserReady /\ ~app.disable
  /\ (app.mode = "autoplay" \/ app.currentNote # 0)
  /\ Commit(handleAgainClick(Click("Again")))

NewKeyClick ==
  /\ UserReady /\ ~app.disable
  /\ \E c \in Choices : Commit(handleNewKeyClick(Click("NewKey"), c))

ChangeMode ==
  /\ CanClick
  /\ \E next \in Modes \ {app.mode} : Commit(changeMode(Setting("ChangeMode"), next))

ToggleRepeatCadence ==
  /\ UserReady
  /\ Commit([Setting("Toggle") EXCEPT !.a.repeatCadence = ~@])

SetRandomKeyChance ==
  /\ CanClick
  /\ Commit([Setting("Toggle") EXCEPT !.a.randomKeyOn = ~@])

\* the effect that loads the instrument once audio is unlocked
StartLoading ==
  /\ app.mounted /\ ~hook.loaded /\ ~app.loading
  /\ Commit([World("StartLoading") EXCEPT !.a.loading = TRUE])

InstrumentLoaded ==
  /\ app.mounted /\ app.loading /\ ~hook.loaded
  /\ \E c \in Choices : Commit(instrumentLoadedEffect(World("Loaded"), c))

\* component teardown: the hook's cleanup effect
Unmount ==
  /\ CanClick
  /\ Commit(clearTimers([Click("Unmount") EXCEPT !.a.mounted = FALSE,
                                                  !.o.ev.stopped = TRUE]))

Due(i) == timers[i].rem = 0 /\ \A j \in 1..(i - 1) : timers[j].rem > 0

KeyTargetState(w) ==
  <<w.a.keyCenter, w.h.pendingKey, w.h.lastKey, w.a.currentNote, w.a.lastPlayedNote>>

\* what the callback of timer t made of w0
Fired(w0, w1, t) ==
  LET effect == \/ w1.o.ev.played # 0 \/ w1.o.ev.cadence
                \/ w1.o.ev.target \/ w1.o.ev.completion
                \/ KeyTargetState(w1) # KeyTargetState(w0)
  IN  [w1 EXCEPT !.o.ev.effect = t.stale /\ effect]

Fire ==
  \E i \in 1..Len(timers) : \E c \in Choices :
    /\ Due(i)
    /\ LET t == timers[i]
           rest == [j \in 1..(Len(timers) - 1) |->
                      IF j < i THEN timers[j] ELSE timers[j + 1]]
           w0 == [World("Fire") EXCEPT !.t = rest, !.o.ctxStale = t.stale,
                                       !.o.ctxCad = t.cad, !.o.ev.stale = t.stale]
       IN  Commit(Fired(w0, fireTimer(w0, c, t), t))

Elapse(ts, d) ==
  [i \in 1..Len(ts) |-> [ts[i] EXCEPT !.rem = @ - d,
                   !.cad = IF @ = NoCadence THEN @ ELSE Max(0, @ - d)]]

NextDeadline ==
  IF timers # <<>>
  THEN CHOOSE m \in {timers[i].rem : i \in 1..Len(timers)} :
         \A i \in 1..Len(timers) : m <= timers[i].rem
  ELSE Max(obs.noteWin, obs.cadWin)

Pass(d, n) ==
  /\ timers' = Elapse(timers, d)
  /\ obs' = [obs EXCEPT !.noteWin = Max(0, @ - d), !.cadWin = Max(0, @ - d),
                        !.rollWin = Max(0, @ - d),
                        !.clicks = @ + n, !.sync = Idle(timers),
                        !.ev = [BlankEv EXCEPT !.act = "Advance"]]
  /\ UNCHANGED <<hook, app, det, live, audio>>

\* time runs to the next timer
Advance == NextDeadline > 0 /\ Pass(NextDeadline, 0)

\* the user lets some time pass before the next action
Wait == CanClick /\ Quantum < NextDeadline /\ Pass(Quantum, 1)

Next ==
  \/ PlayClick \/ StopClick \/ AgainClick \/ NewKeyClick \/ ChangeMode
  \/ ToggleRepeatCadence \/ SetRandomKeyChance \/ StartLoading
  \/ InstrumentLoaded \/ Unmount \/ Fire \/ Advance \/ Wait

Spec == Init /\ [][Next]_vars

\* the same program where a call of chooseRandomNote can use up its attempts
InitSampling ==
  /\ hook = HookConstructed
  /\ \E cs \in Speeds, as \in Speeds : app = AppConstructed(cs, as)
  /\ timers = <<>>
  /\ obs = [ObsConstructed EXCEPT !.scarce = TRUE]
  /\ DetIdle /\ LiveIdle /\ AudioIdle

SpecSampling == InitSampling /\ [][Next]_vars

\* the autoplay loop under way: the instrument has loaded, the settings
\* were picked, and Play has been pressed; the loop is followed through one
\* more user action
AutoplayStarted(rc, rk) ==
  LET w0 == [h |-> [HookConstructed EXCEPT !.loaded = TRUE],
             a |-> [AppConstructed("medium", "medium") EXCEPT
                      !.repeatCadence = rc, !.randomKeyOn = rk],
             t |-> <<>>,
             o |-> [ObsConstructed EXCEPT !.clicks = MaxClicks - 1,
                                          !.ev.act = "Play"]]
      w1 == handlePlayClick(w0, [seedNote |-> 0, rolled |-> FALSE, seedKey |-> 0])
  IN  [w1 EXCEPT !.h.isPlayingRef = w1.h.isPlaying]

InitAutoplay ==
  /\ DetIdle /\ LiveIdle /\ AudioIdle
  /\ \E rc \in BOOLEAN, rk \in BOOLEAN :
       LET w == AutoplayStarted(rc, rk)
       IN  hook = w.h /\ app = w.a /\ timers = w.t /\ obs = w.o

NextAutoplay == StopClick \/ AgainClick \/ Fire \/ Advance \/ Wait

\* the browser runs a timer callback once it is due, and time passes
SpecAutoplay ==
  InitAutoplay /\ [][NextAutoplay]_vars /\ WF_vars(Fire) /\ WF_vars(Advance)


(***************************************************************************)
(* Pitch detection: state machine                                          *)
(***************************************************************************)
\* the feed: RMS as a percentage of the amplitude threshold in force,
\* clarity around the clarity threshold, a few tones, two frame spacings
RmsPct == {40, 47, 55, 100}
Tones == {262, 277, 311, 1661, 2489, 2700}
Gaps == {FrameMs, GapMs}

ClarityLevels(cl) ==
  {cl.minClarity - 100, cl.minClarity, cl.minClarity + cl.crange + 10}

FrameInputs(cl) ==
  [rms : {(cl.amp * p) \div 100 : p \in RmsPct}, clarity : ClarityLevels(cl),
   freq : Tones, dt : Gaps]

\* a feed is mostly silence or a clear loud tone, one frame apart; MaxOdd
\* bounds how often it is anything else
OddCost(f, cl) ==
  (IF f.rms \in {(cl.amp * 40) \div 100, cl.amp} THEN 0 ELSE 1)
    + (IF f.clarity = cl.minClarity THEN 0 ELSE 1)
    + (IF f.freq \in {262, 277} THEN 0 ELSE 1)
    + (IF f.dt = FrameMs THEN 0 ELSE 1)

DetFrozen == UNCHANGED <<hook, app, timers, obs, live, audio>>

InitDetect ==
  /\ DrillInit /\ LiveIdle /\ AudioIdle
  /\ det \in {DetConstructed(sens) : sens \in 0..SensAuto}

\* startMode with the detector loaded: initMic runs up to its await
StartMode ==
  /\ ~det.running /\ det.mic # "awaiting"
  /\ det' = [initMicRequest(det) EXCEPT !.inStart = TRUE, !.stopped = FALSE,
                                        !.act = "StartMode"]
  /\ DetFrozen

Calm(d) ==
  [d EXCEPT !.run = 0, !.runAge = NoTime, !.held = 0, !.heldAge = NoTime,
            !.lowFor = NoTime, !.osc = FALSE,
            !.promoted = FALSE, !.cleared = FALSE]

Interrupted(d) == [Calm(d) EXCEPT !.odd = @ + 1]

\* getUserMedia resolves: the rest of initMic runs, whatever happened since
MicGranted ==
  /\ det.mic = "awaiting"
  /\ det' = [startModeDone(initMicGranted(IF det.running THEN Calm(det)
                                             ELSE det)) EXCEPT
                !.act = "MicGranted"]
  /\ DetFrozen

\* getUserMedia rejects; a rejected change of device is one oddity, counted
\* when the device was changed
MicDenied ==
  /\ det.mic = "awaiting" /\ (det.odd < MaxOdd \/ det.running)
  /\ det' = [startModeDone(initMicDenied(det)) EXCEPT
                                       !.odd = IF det.running THEN @ ELSE @ + 1,
                                       !.promoted = FALSE,
                                       !.cleared = FALSE, !.act = "MicDenied"]
  /\ DetFrozen

\* stopMode, the switch away from live mode, or the unmount cleanup
StopMode ==
  /\ (det.running \/ det.mic = "awaiting") /\ det.odd < MaxOdd
  /\ det' = [stopMode(Interrupted(det)) EXCEPT !.stopped = TRUE,
                                                    !.act = "StopMode"]
  /\ DetFrozen

\* changeDevice: initMic runs up to its await while the loop keeps going
ChangeDevice ==
  /\ det.running /\ det.mic # "awaiting" /\ det.odd < MaxOdd
  /\ det' = [initMicRequest(det) EXCEPT !.odd = @ + 1, !.promoted = FALSE,
                                        !.cleared = FALSE, !.stopped = FALSE,
                                        !.act = "ChangeDevice"]
  /\ DetFrozen

SetSensitivity ==
  /\ det.odd < MaxOdd
  /\ \E v \in (0..SensAuto) \ {det.sens} :
       det' = [det EXCEPT !.sens = v, !.odd = @ + 1, !.promoted = FALSE,
                          !.cleared = FALSE, !.act = "SetSensitivity"]
  /\ DetFrozen

\* what the analyser reads: the feed of a live stream, silence once the
\* tracks of its stream were stopped
AnalyserInputs(d) ==
  IF d.stream = "live" THEN FrameInputs(d.cl)
  ELSE [rms : {0}, clarity : {0}, freq : {0}, dt : Gaps]

FrameCost(d, f) ==
  IF d.stream = "live" THEN OddCost(f, d.cl)
  ELSE IF f.dt = FrameMs THEN 0 ELSE 1

\* idle: the idle fade has fired and no candidate was accepted since
SinceIdleClear(d) == [d EXCEPT !.idle = d.cleared \/ (@ /\ ~d.acc)]

\* one animation frame: without an analyser the step only re-arms itself
Frame ==
  /\ det.running /\ det.n < MaxFrames
  /\ \E f \in AnalyserInputs(det) :
       /\ det.odd + FrameCost(det, f) <= MaxOdd
       /\ det' = [(IF det.stream = "none" THEN Tick(det, f.dt)
                   ELSE SinceIdleClear(detectionStep(Tick(det, f.dt), f))) EXCEPT
                     !.n = @ + 1, !.odd = @ + FrameCost(det, f), !.act = "Frame"]
  /\ DetFrozen

\* time passes while the loop is stopped
Pause ==
  /\ ~det.running /\ det.n < MaxFrames
  /\ det' = [Tick(det, GapMs) EXCEPT !.n = @ + 1, !.osc = FALSE, !.act = "Pause"]
  /\ DetFrozen

NextDetect ==
  \/ StartMode \/ MicGranted \/ MicDenied \/ StopMode \/ ChangeDevice
  \/ SetSensitivity \/ Frame \/ Pause

SpecDetect == InitDetect /\ [][NextDetect]_vars

(***************************************************************************)
(* Live mode: state machine                                                *)
(***************************************************************************)
\* the stabilized pitches the detection hook can hand over: null, the
\* target range, and the octaves around it
LivePitches == {0} \cup (LowPitch..HighPitch) \cup {HighPitch - 12, LowPitch + 12}

LiveChoices ==
  [seedNote : 0..(HighPitch - LowPitch), rolled : BOOLEAN,
   seedKey : 0..Max(0, NumKeys - 2)]

LiveWorld(act) ==
  [h |-> hook, a |-> app, t |-> timers,
   o |-> [obs EXCEPT !.ev = [BlankEv EXCEPT !.act = act]],
   l |-> [live EXCEPT !.ev = [act |-> act, runs |-> <<>>, started |-> FALSE,
                               unsettled |-> FALSE, rolled |-> FALSE]]]

\* a user action or a new stabilized pitch: the model follows at most
\* MaxLiveEvents of them
LiveEvent(act) == [LiveWorld(act) EXCEPT !.l.n = @ + 1]

\* entering live mode and picking the settings before the first Play are
\* not counted
LiveSetup == live.n = 0 /\ ~live.running /\ timers = <<>>

LiveSetting(act) == IF LiveSetup THEN LiveWorld(act) ELSE LiveEvent(act)

LivePublish(y) ==
  /\ Len(y.t) <= MaxTimers
  /\ hook' = y.h
  /\ app' = y.a
  /\ timers' = y.t
  /\ obs' = [y.o EXCEPT !.ctxStale = FALSE, !.ctxCad = NoCadence]
  /\ live' = y.l
  /\ UNCHANGED <<det, audio>>

LiveCommit(prev, x) == LivePublish(settle(prev, x))

\* the component as constructed, or back in the drill modes after a live
\* session that ended one short of the streak target
InitLive ==
  /\ DrillInit /\ DetIdle /\ AudioIdle
  /\ \E s \in {0, STREAK_TARGET - 1} :
       live = [LiveConstructed EXCEPT !.streak = s, !.total = s,
                 !.firstCorrect = s,
                 !.up = IF s = 0 THEN 0 ELSE NULL_RESET_MS + 1]

\* a live session under way: the component as in InitLive, switched to live
\* mode, the microphone ready, Play pressed; the settings were picked before
SessionStarted(s, strict, rc, seed) ==
  LET w0 == [h |-> HookConstructed, a |-> AppConstructed("medium", "medium"),
             t |-> <<>>, o |-> ObsConstructed,
             l |-> [LiveConstructed EXCEPT !.streak = s, !.total = s,
                      !.firstCorrect = s, !.strict = strict,
                      !.repeatCadence = rc,
                      !.up = IF s = 0 THEN 0 ELSE NULL_RESET_MS + 1]]
      w1 == settle(w0, liveChangeMode(w0, "live"))
      w2 == settle(w1, [w1 EXCEPT !.l.starting = @ - 1, !.l.active = TRUE])
  IN  settle(w2, liveHandlePlayClick(w2, seed))

InitLiveSession ==
  /\ DetIdle /\ AudioIdle
  /\ \E s \in {0, STREAK_TARGET - 1}, strict \in BOOLEAN, rc \in BOOLEAN :
       LET y == SessionStarted(s, strict, rc, 0)
       IN  /\ hook = y.h /\ app = y.a /\ timers = y.t /\ obs = y.o
           /\ live = [y.l EXCEPT !.ev.act = "Play"]

LiveCanAct == app.mounted /\ live.n < MaxLiveEvents

InLive == LiveCanAct /\ app.mode = "live"

\* the first switch to live mode is not counted
LiveEnter ==
  /\ LiveCanAct /\ app.mode # "live"
  /\ LET w == IF live.starting = 0 /\ ~live.active THEN LiveSetting("EnterLive")
              ELSE LiveEvent("EnterLive")
     IN  LiveCommit(w, liveChangeMode(w, "live"))

LiveLeave ==
  /\ InLive
  /\ \E next \in Modes \ {"live"} :
       LET w == LiveEvent("LeaveLive") IN LiveCommit(w, liveChangeMode(w, next))

\* startMode has loaded the detector and initialised the microphone
MicReady ==
  /\ live.starting > 0
  /\ LET w == LiveWorld("MicReady")
     IN  LiveCommit(w, [w EXCEPT !.l.starting = @ - 1, !.l.active = TRUE])

LivePlayClick ==
  /\ InLive /\ ~live.running
  /\ \E c \in LiveChoices :
       LET w == LiveEvent("Play") IN LiveCommit(w, liveHandlePlayClick(w, c.seedNote))

LiveStopClick ==
  /\ InLive /\ live.running
  /\ LET w == LiveEvent("Stop") IN LiveCommit(w, liveHandlePlayClick(w, 0))

LiveAgainClick ==
  /\ InLive /\ ~app.disable /\ live.running /\ live.target # 0
  /\ LET w == LiveEvent("Again") IN LiveCommit(w, liveHandleAgainClick(w))

LiveNewKeyClick ==
  /\ InLive /\ ~app.disable
  /\ \E c \in LiveChoices :
       LET w == LiveEvent("NewKey")
       IN  LiveCommit(w, liveHandleNewKeyClick(w, c.seedKey, c.seedNote))

ToggleStrict ==
  /\ InLive
  /\ LET w == LiveSetting("Strict") IN LiveCommit(w, [w EXCEPT !.l.strict = ~@])

ToggleLiveRepeatCadence ==
  /\ InLive
  /\ LET w == LiveSetting("RepeatCadence")
     IN  LiveCommit(w, [w EXCEPT !.l.repeatCadence = ~@])

LiveSetRandomKeyChance ==
  /\ InLive
  /\ LET w == LiveSetting("RandomKey")
     IN  LiveCommit(w, [w EXCEPT !.a.randomKeyOn = ~@])

\* the detection hook publishes a stabilized pitch, or clears it
StablePitch ==
  /\ LiveCanAct /\ live.active
  /\ \E p \in LivePitches \ {live.stable} :
       LET w == LiveEvent("Stable") IN LiveCommit(w, [w EXCEPT !.l.stable = p])

FireKind(kinds, callback(_, _, _)) ==
  \E i \in 1..Len(timers) : \E c \in LiveChoices :
    /\ Due(i) /\ timers[i].kind \in kinds
    /\ LET t == timers[i]
           rest == [j \in 1..(Len(timers) - 1) |->
                      IF j < i THEN timers[j] ELSE timers[j + 1]]
           w == [LiveWorld("Fire") EXCEPT !.t = rest, !.o.ctxStale = t.stale,
                                          !.o.ctxCad = t.cad]
       IN  LiveCommit(w, callback(w, t, c))

TargetNoteFire == FireKind({"targetNote"}, LAMBDA x, t, c : targetNoteFired(x, t))

AfterFirstFire ==
  FireKind({"afterFirst"}, LAMBDA x, t, c : afterFirstFired(x, t, c.rolled, c.seedNote))

CongratsFire == FireKind({"congrats"}, LAMBDA x, t, c : congratsFired(x, t, c.seedNote))

AfterLaterFire ==
  FireKind({"afterLater"}, LAMBDA x, t, c : afterLaterFired(x, t, c.seedNote))

LiveUnlockFire == FireKind({"liveUnlock"}, LAMBDA x, t, c : liveUnlockFired(x))

CadenceFlagFire ==
  FireKind({"cadActiveOff"},
           LAMBDA x, t, c : fireTimer(x, [seedNote |-> c.seedNote, rolled |-> FALSE,
                                          seedKey |-> c.seedKey], t))

LiveDeadlines ==
  {timers[i].rem : i \in 1..Len(timers)}
    \cup (IF live.disableFor > 0 THEN {live.disableFor} ELSE {})
    \cup (IF live.up <= NULL_RESET_MS THEN {NULL_RESET_MS + 1 - live.up} ELSE {})

LiveDeadline ==
  IF LiveDeadlines = {} THEN 0
  ELSE CHOOSE m \in LiveDeadlines : \A d \in LiveDeadlines : m <= d

LivePass(d, n) ==
  /\ timers' = Elapse(timers, d)
  /\ obs' = [obs EXCEPT !.noteWin = Max(0, @ - d), !.cadWin = Max(0, @ - d),
                        !.rollWin = Max(0, @ - d),
                        !.ev = [BlankEv EXCEPT !.act = "Advance"]]
  /\ live' = [live EXCEPT !.disableFor = Max(0, @ - d),
                          !.up = Min(NULL_RESET_MS + 1, @ + d), !.n = @ + n,
                          !.ev = [act |-> "Advance", runs |-> <<>>,
                                  started |-> FALSE, unsettled |-> FALSE,
                                  rolled |-> FALSE]]
  /\ UNCHANGED <<hook, app, det, audio>>

LiveAdvance == LiveDeadline > 0 /\ LivePass(LiveDeadline, 0)

LiveWait == LiveCanAct /\ Quantum < LiveDeadline /\ LivePass(Quantum, 1)

NextLive ==
  \/ LiveEnter \/ LiveLeave \/ MicReady \/ LivePlayClick \/ LiveStopClick
  \/ LiveAgainClick \/ LiveNewKeyClick \/ ToggleStrict
  \/ ToggleLiveRepeatCadence \/ LiveSetRandomKeyChance \/ StablePitch
  \/ TargetNoteFire \/ AfterFirstFire \/ CongratsFire \/ AfterLaterFire
  \/ LiveUnlockFire \/ CadenceFlagFire \/ LiveAdvance \/ LiveWait

SpecLive == InitLive /\ [][NextLive]_vars

SpecLiveSession == InitLiveSession /\ [][NextLive]_vars


(***************************************************************************)
(* Cadence scheduling state machine (AudioService.scheduleCadence)         *)
(***************************************************************************)
CadenceSpeeds == {"slow", "medium", "fast"}

AudioFrozen == UNCHANGED <<hook, app, timers, obs, det, live>>

InitCadence == DrillInit /\ DetIdle /\ LiveIdle /\ AudioIdle

\* scheduleCadence(key, speed) is called, with or without a loaded instrument
CallScheduleCadence ==
  /\ audio.phase # "scheduling"
  /\ \E key \in Keys, speed \in CadenceSpeeds, useInstrument \in BOOLEAN :
       audio' = beginCadence(key, speed, useInstrument)
  /\ AudioFrozen

ScheduleTone ==
  /\ audio.phase = "scheduling" /\ audio.chord <= 4
  /\ audio' = scheduleTone(audio)
  /\ AudioFrozen

ReturnCadence ==
  /\ audio.phase = "scheduling" /\ audio.chord > 4
  /\ audio' = returnCadence(audio)
  /\ AudioFrozen

NextCadence == CallScheduleCadence \/ ScheduleTone \/ ReturnCadence

SpecCadence == InitCadence /\ [][NextCadence]_vars

(***************************************************************************)
(* Tonal model: the solfege lookup as a state machine                      *)
(***************************************************************************)
DEFAULT_LOW == 21
DEFAULT_HIGH == 108

\* SOLFEGE_MAP[rel]; an index outside the table reads undefined
SOLFEGE_MAP(rel) ==
  CASE rel = 0 -> [diatonic |-> TRUE, syllable |-> "Do"]
    [] rel = 1 -> [diatonic |-> FALSE, syllable |-> "Ra"]
    [] rel = 2 -> [diatonic |-> TRUE, syllable |-> "Re"]
    [] rel = 3 -> [diatonic |-> FALSE, syllable |-> "Me"]
    [] rel = 4 -> [diatonic |-> TRUE, syllable |-> "Mi"]
    [] rel = 5 -> [diatonic |-> TRUE, syllable |-> "Fa"]
    [] rel = 6 -> [diatonic |-> FALSE, syllable |-> "Fi"]
    [] rel = 7 -> [diatonic |-> TRUE, syllable |-> "Sol"]
    [] rel = 8 -> [diatonic |-> FALSE, syllable |-> "Le"]
    [] rel = 9 -> [diatonic |-> TRUE, syllable |-> "La"]
    [] rel = 10 -> [diatonic |-> FALSE, syllable |-> "Te"]
    [] rel = 11 -> [diatonic |-> TRUE, syllable |-> "Ti"]
    [] OTHER -> [diatonic |-> FALSE, syllable |-> "undefined"]

\* SOLFEGE_MAP[(n - root + 1200) % 12] with root = computeRoot(key)
solfegeLookup(p, key) == SOLFEGE_MAP(RelDegree(p, computeRoot(key)))

NotLookedUp == [diatonic |-> FALSE, syllable |-> "none"]

\* the twelve keys of the circle and a name KEY_TO_SEMITONE does not know
KnownKeys == {keysCircle[i] : i \in 1..Len(keysCircle)}
KeyNames == KnownKeys \cup {"H"}

InitSolfege ==
  /\ hook = HookConstructed
  /\ app = AppConstructed("medium", "medium")
  /\ timers = <<>>
  /\ DetIdle /\ LiveIdle /\ AudioIdle
  /\ \E k \in KeyNames, p \in DEFAULT_LOW..DEFAULT_HIGH :
       obs = [key |-> k, root |-> computeRoot(k), origin |-> p, pitch |-> p,
              first |-> NotLookedUp, info |-> NotLookedUp]

\* the syllable of the pitch is looked up
LookupSolfege ==
  /\ obs.info = NotLookedUp
  /\ obs' = [obs EXCEPT !.info = solfegeLookup(obs.pitch, obs.key),
                        !.first = IF @ = NotLookedUp
                                  THEN solfegeLookup(obs.pitch, obs.key) ELSE @]
  /\ UNCHANGED <<hook, app, timers, det, live, audio>>

\* the same note an octave higher or lower
OctaveShift ==
  /\ obs.first # NotLookedUp
  /\ \E d \in {-12, 12} :
       /\ obs.pitch + d \in DEFAULT_LOW..DEFAULT_HIGH
       /\ obs' = [obs EXCEPT !.pitch = @ + d, !.info = NotLookedUp]
  /\ UNCHANGED <<hook, app, timers, det, live, audio>>

NextSolfege == LookupSolfege \/ OctaveShift

SpecSolfege == InitSolfege /\ [][NextSolfege]_vars

(***************************************************************************)
(* TestRunner: one test at a time, cadence then note then onComplete       *)
(* A world x carries the runner in x.r, its pending timeouts in x.t and    *)
(* what the step did in x.o; a timeout handle is the id of its test.       *)
(***************************************************************************)
NoTest == [id |-> 0, targetMidi |-> 0, playCadence |-> FALSE, reason |-> "none"]

TestDescriptor(id, midi, cad, reason) ==
  [id |-> id, targetMidi |-> midi, playCadence |-> cad, reason |-> reason]

RunnerConstructed ==
  [state |-> "idle", current |-> NoTest, cadenceTimer |-> 0, noteTimer |-> 0,
   canceled |-> FALSE]

RunnerEv ==
  [act |-> "init", desc |-> NoTest, cadence |-> 0, played |-> 0,
   completed |-> 0, canceled |-> FALSE]

clearTimeout(ts, kind, handle) ==
  SelectSeq(ts, LAMBDA t : ~(t.kind = kind /\ t.desc.id = handle))

\* cancel(reason); onCanceled only reports
cancel(x) ==
  IF x.r.state = "idle" /\ x.r.current = NoTest
  THEN [x EXCEPT !.o.ev.canceled = TRUE]
  ELSE [x EXCEPT !.r.canceled = TRUE,
                 !.t = clearTimeout(clearTimeout(@, "cadence", x.r.cadenceTimer),
                                    "note", x.r.noteTimer),
                 !.r.current = NoTest, !.r.state = "idle",
                 !.o.ev.canceled = TRUE]

runNote(x, desc) ==
  IF x.r.canceled \/ x.r.current = NoTest THEN x
  ELSE [x EXCEPT !.r.state = "note", !.o.ev.played = desc.id,
                 !.r.noteTimer = desc.id,
                 !.t = Append(@, [kind |-> "note", desc |-> desc])]

runCadence(x, desc) ==
  IF x.r.canceled \/ x.r.current = NoTest THEN x
  ELSE [x EXCEPT !.r.state = "cadence", !.o.ev.cadence = desc.id,
                 !.r.cadenceTimer = desc.id,
                 !.t = Append(@, [kind |-> "cadence", desc |-> desc])]

start(x, desc) ==
  LET x1 == IF x.r.state # "idle" THEN cancel(x) ELSE x
      x2 == [x1 EXCEPT !.r.canceled = FALSE, !.r.current = desc]
  IN  IF desc.playCadence THEN runCadence(x2, desc) ELSE runNote(x2, desc)

\* finish(); next is the test the onComplete callback starts, NoTest when
\* it starts none
finish(x, next) ==
  IF x.r.current = NoTest \/ x.r.canceled THEN x
  ELSE LET x1 == [x EXCEPT !.r.state = "idle", !.o.ev.completed = x.r.current.id]
           x2 == IF next = NoTest THEN x1 ELSE start(x1, next)
       IN  [x2 EXCEPT !.r.current = NoTest]

RunnerWorld(act, desc) ==
  [r |-> audio, t |-> timers,
   o |-> [obs EXCEPT !.ev = [RunnerEv EXCEPT !.act = act, !.desc = desc]]]

RunnerCommit(x) ==
  /\ audio' = x.r
  /\ timers' = x.t
  /\ obs' = x.o
  /\ UNCHANGED <<hook, app, det, live>>

InitRunner ==
  /\ hook = HookConstructed
  /\ app = AppConstructed("medium", "medium")
  /\ DetIdle /\ LiveIdle
  /\ audio = RunnerConstructed
  /\ timers = <<>>
  /\ obs = [tests |-> 0, ev |-> RunnerEv]

\* the tests a caller can hand over next; the model follows MaxClicks tests
NextTests(reason) ==
  IF obs.tests < MaxClicks
  THEN {TestDescriptor(obs.tests + 1, m, cad, reason) :
          m \in LowPitch..HighPitch, cad \in BOOLEAN}
  ELSE {}

\* a controller starts a test
RunnerStart ==
  \E desc \in NextTests("play") :
    RunnerCommit(start([RunnerWorld("Start", desc) EXCEPT !.o.tests = @ + 1], desc))

\* a controller cancels
RunnerCancel ==
  /\ ~obs.ev.canceled
  /\ RunnerCommit(cancel(RunnerWorld("Cancel", audio.current)))

\* the timeout armed by runCadence elapses
CadenceTimerFire ==
  \E i \in 1..Len(timers) :
    /\ timers[i].kind = "cadence"
    /\ LET x == [RunnerWorld("CadenceTimer", timers[i].desc) EXCEPT
                   !.t = clearTimeout(@, "cadence", timers[i].desc.id)]
       IN  RunnerCommit(runNote(x, timers[i].desc))

\* the timeout armed by runNote elapses; onComplete starts the next test or
\* starts none
NoteTimerFire ==
  \E i \in 1..Len(timers) :
    /\ timers[i].kind = "note"
    /\ \E next \in {NoTest} \cup NextTests("auto") :
         LET x == [RunnerWorld("NoteTimer", timers[i].desc) EXCEPT
                     !.t = clearTimeout(@, "note", timers[i].desc.id),
                     !.o.tests = IF next = NoTest THEN @ ELSE @ + 1]
         IN  RunnerCommit(finish(x, next))

NextRunner == RunnerStart \/ RunnerCancel \/ CadenceTimerFire \/ NoteTimerFire

SpecRunner == InitRunner /\ [][NextRunner]_vars

(***************************************************************************)
(* Cadence scheduling: properties                                          *)
(***************************************************************************)
Onsets == audio.events

ChordOf(i) == (i + 2) \div 3

\* C21 as stated: twelve onsets, each later than the one before.
C21_StrictlyIncreasingOnsets ==
  audio.phase = "returned"
    => /\ Len(Onsets) = 12
       /\ \A i \in 1..(Len(Onsets) - 1) : Onsets[i].at < Onsets[i + 1].at

\* C21: a cadence of any tempo class is twelve onsets in four chords of
\* three; the tones of a chord share one onset, onsets never go back, and
\* each chord starts later than the chord before.
C21_TwelveOnsetsChordByChord ==
  audio.phase = "returned"
    => /\ Len(Onsets) = 12
       /\ \A i \in 1..(Len(Onsets) - 1) :
            IF ChordOf(i) = ChordOf(i + 1)
            THEN Onsets[i].at = Onsets[i + 1].at
            ELSE Onsets[i].at < Onsets[i + 1].at

C21_CadenceScheduled ==
  /\ audio.phase = "returned" /\ Len(Onsets) = 12
  /\ audio.speed = "fast" /\ Onsets[12].at > 0

\* C22 as stated: the returned length is four chord durations and three
\* gaps, 2.34 s at medium tempo.
C22_DurationWithoutFinalGap ==
  audio.phase = "returned"
    => /\ audio.lengthSec = 4 * chordDuration(TEMPO_VALUES(audio.speed))
                             + 3 * chordGap(TEMPO_VALUES(audio.speed))
       /\ audio.speed = "medium" => audio.lengthSec = 2340

\* C22: the returned length is the running offset after the fourth chord,
\* four chord durations and four gaps, which is four times the tempo: 2.4 s
\* at medium tempo; it is the length the drill controller waits for.
C22_DurationCountsFourGaps ==
  audio.phase = "returned"
    => /\ audio.lengthSec = 4 * chordDuration(TEMPO_VALUES(audio.speed))
                             + 4 * chordGap(TEMPO_VALUES(audio.speed))
       /\ audio.lengthSec = 4 * TEMPO_VALUES(audio.speed)
       /\ audio.lengthSec = CadenceLen(audio.speed)
       /\ audio.speed = "medium" => audio.lengthSec = 2400

C22_MediumCadenceReturned ==
  /\ audio.phase = "returned" /\ audio.speed = "medium"
  /\ audio.lengthSec = 2400 /\ Onsets[10].at = 1800

(***************************************************************************)
(* Drill cycle: properties                                                 *)
(***************************************************************************)
\* C1: after play / again / newKey calls issued back to back on an idle
\* controller, with no timer firing in between, at most one cadence-or-note
\* timer is pending.
C1_AtMostOneNotePlayTimer ==
  obs.sync => CountKinds(timers, NotePlayKinds) <= 1

\* C2: no note is played inside the 1.55 s window of an earlier note, and no
\* cadence is scheduled while a cadence or a note is still sounding.
C2_OneTestInFlight == ~obs.ev.ovNote /\ ~obs.ev.ovCad

\* C3: right after the controller has stopped (Stop, the stop of a mode
\* switch, teardown) no cadence, note-start, note-completion or interval
\* timer is pending.
C3_StopCancelsTimers ==
  obs.ev.stopped => CountKinds(timers, CycleKinds) = 0

\* C4: a timer callback whose cycle was cancelled, preempted or stopped
\* plays nothing, starts no target, runs no completion callback and leaves
\* key and target state alone.
C4_StaleCallbackNoOp == ~obs.ev.effect

\* C5: in a cycle that has a cadence the note is played only once the
\* duration returned for that cadence has elapsed.
C5_NoteAfterCadence == ~obs.ev.early

C5_CadenceThenNote ==
  obs.ev.played # 0 /\ obs.ev.withCad /\ ~obs.ev.early

\* a Play click that reaches the loaded controller with no note sounding
\* (a Play during a sounding note is queued until the note completes)
PlayStarts == obs'.ev.act = "Play" /\ hook.loaded /\ ~app.noteActive

\* the deferred Play: the instrument finishes loading with a Play waiting
DeferredPlayStarts ==
  /\ obs'.ev.act = "Loaded"
  /\ \E i \in 1..Len(app.thenQueue) :
       app.thenQueue[i].kind \in {"runManual", "runAutoplay"}

CadenceWanted ==
  hook.firstPlay \/ hook.pendingKey # NoKey \/ app.repeatCadence

\* C11: a play that starts a test on its very first test, with a key change
\* pending or with repeat cadence on schedules a cadence in that step and
\* chooses no note before it.
C11_PlaySchedulesCadence ==
  [][(PlayStarts /\ CadenceWanted) \/ DeferredPlayStarts
       => obs'.ev.cadence /\ ~obs'.ev.target /\ obs'.ev.played = 0]_vars

C11_CadenceForPendingKey ==
  /\ obs.ev.act = "Play" /\ obs.ev.cadence /\ ~obs.ev.target
  /\ ~hook.firstPlay /\ ~app.repeatCadence

FiresKind(kind) ==
  /\ obs'.ev.act = "Fire"
  /\ \E i \in 1..Len(timers) : Due(i) /\ timers[i].kind = kind

IntervalElapses ==
  FiresKind("interval") /\ app.mode = "autoplay" /\ hook.autoPlayRef

C14_RolledKeyNotAppliedMidNote ==
  [][/\ (obs.rollWin > 0 \/ obs'.rollWin > obs.rollWin) /\ obs'.ev.act = "Fire"
       => app'.keyCenter = app.keyCenter
     /\ FiresKind("noteDone") /\ app.pendingRandomKey /\ app.mode # "live"
       => /\ app'.keyCenter = app.keyCenter
          /\ hook'.pendingKey \in OtherKeys(app.keyCenter)
          /\ ~app'.pendingRandomKey]_vars

ReplayKinds == {"cadReplay", "againManual"}

\* the note the Again handler is to replay: currentNote, in autoplay
\* lastPlayedNoteRef when there is none
NoteToReplay ==
  IF app.currentNote = 0 /\ app.mode = "autoplay" THEN app.lastPlayedNote
  ELSE app.currentNote

AgainAccepted ==
  /\ obs'.ev.act = "Again" /\ ~app.disable /\ app.mode # "live"
  /\ NoteToReplay # 0

ContinuationKinds == {"interval", "cadAuto", "cadInitial", "noteStart", "noteDone"}

ReplayFinishes ==
  /\ FiresKind("replayDone") /\ app.mode = "autoplay"
  /\ hook.autoPlayRef /\ hook.isPlayingRef

\* C16: when an Again replay finishes in running autoplay, the cycle goes on
\* with one continuation: the completion arms the inter-drill interval, and
\* that interval is the only pending step towards a next Drill Target.
C16_OneContinuationPerReplay ==
  [][ReplayFinishes
       => /\ CountKinds(timers', {"interval"}) = 1
          /\ CountKinds(timers', ContinuationKinds) = 1]_vars

NewKeyAccepted ==
  obs'.ev.act = "NewKey" /\ ~app.disable /\ app.mode # "live"

\* the New Key launches waiting for the instrument
DeferredNewKeys ==
  {i \in 1..Len(app.thenQueue) : app.thenQueue[i].kind = "launch"}

LoadCompletes == obs'.ev.act = "Loaded"

StartedCycles(ts) == CountKinds(ts, {"cadInitial", "noteStart"})

RunsWhere(cond(_)) ==
  {i \in 1..Len(live'.ev.runs) : live'.ev.runs[i].evaluated /\ cond(live'.ev.runs[i])}

\* C27: a step in which a first attempt on a target is evaluated and is
\* exact raises the first-attempt-correct count by exactly 1 and the streak
\* by exactly 1.
C27_ExactFirstAttemptCounts ==
  [][RunsWhere(LAMBDA r : r.first /\ r.exact) # {}
       => /\ live'.firstCorrect = live.firstCorrect + 1
          /\ live'.streak = live.streak + 1]_vars

C27_ExactFirstAttemptCounted ==
  /\ \E i \in 1..Len(live.ev.runs) :
        live.ev.runs[i].evaluated /\ live.ev.runs[i].first /\ live.ev.runs[i].exact
  /\ live.streak = 1 /\ live.firstCorrect = 1 /\ live.feedback = "correct"

\* C28: a step in which an attempt is evaluated as wrong (neither the
\* target pitch nor its scale degree) leaves the streak at 0; one evaluated
\* as near (the degree of the target in another octave) leaves the streak
\* at 0 when strict is on and as it was when strict is off.
C28_MissResetsStreak ==
  [][/\ RunsWhere(LAMBDA r : ~r.exact /\ ~r.near) # {} => live'.streak = 0
     /\ RunsWhere(LAMBDA r : r.near /\ r.strict) # {} => live'.streak = 0
     /\ RunsWhere(LAMBDA r : r.near /\ ~r.strict) # {}
          => live'.streak = live.streak]_vars

\* the congratulation pause ends in this step
CongratsEnds == live.congrats /\ ~live'.congrats

\* C29: the step that takes the streak to STREAK_TARGET arms the pause;
\* when the congratulation pause ends the key center is changed and the
\* streak is 0; and while the streak stands at STREAK_TARGET no attempt is
\* evaluated.
C29_StreakTargetChangesKey ==
  [][/\ live.streak < STREAK_TARGET /\ live'.streak >= STREAK_TARGET
          => CountKinds(timers', {"afterFirst"}) > 0
     /\ CongratsEnds
          => app'.keyCenter # app.keyCenter /\ live'.streak = 0
     /\ live.streak >= STREAK_TARGET
          => RunsWhere(LAMBDA r : TRUE) = {}]_vars

\* C30: a step in which a later attempt on a target is evaluated and is
\* not exact serves the same target again: the target and the count of
\* targets are unchanged, the target is awaited afresh, its note is
\* scheduled, and a cadence is sounded in that step exactly when repeat
\* cadence is on (the note then waits for the cadence to end).
C30_SecondMissReserves ==
  [][RunsWhere(LAMBDA r : ~r.first /\ ~r.exact) # {}
       => /\ live'.target = live.target /\ live'.total = live.total
          /\ live'.ev.started /\ live'.feedback = "awaiting"
          /\ timers' # <<>>
          /\ timers'[Len(timers')].kind = "targetNote"
          /\ timers'[Len(timers')].note = live.target
          /\ obs'.ev.cadence = live.repeatCadence
          /\ timers'[Len(timers')].rem =
               IF live.repeatCadence
               THEN CadenceLen(app.cadenceSpeed) + TARGET_NOTE_DELAY_MS
               ELSE DIRECT_NOTE_DELAY_MS]_vars

C30_ReservedWithoutCadence ==
  /\ \E i \in 1..Len(live.ev.runs) :
        /\ live.ev.runs[i].evaluated /\ ~live.ev.runs[i].first
        /\ ~live.ev.runs[i].exact /\ live.ev.runs[i].was = "wrong"
  /\ live.ev.started /\ ~obs.ev.cadence /\ ~live.repeatCadence
  /\ live.target = 60 /\ live.attempts = 0 /\ live.total = 1

\* an attempt is evaluated in the step just taken
EvaluatedNow == RunsWhere(LAMBDA r : TRUE) # {}

\* C31 as stated: the attempt count, the first-attempt-correct count, the
\* count of targets and the streak change only in a step that evaluates a
\* stabilized pitch.
C31_OnlyEvaluationWritesMetrics ==
  [][<<live'.attempts, live'.firstCorrect, live'.total, live'.streak>>
        # <<live.attempts, live.firstCorrect, live.total, live.streak>>
       => EvaluatedNow]_vars

\* C31 amended: the streak and the first-attempt-correct count change only
\* in a step that evaluates a stabilized pitch, or (the streak, to 0) when
\* the congratulation pause ends; the count of targets changes only by 1 in
\* a step that starts a target; the attempt count changes only in an
\* evaluating step or back to 0 in a step that starts a target or resets
\* the live state.
C31_MetricsWriters ==
  [][/\ live'.firstCorrect # live.firstCorrect => EvaluatedNow
     /\ live'.streak # live.streak
          => EvaluatedNow \/ (CongratsEnds /\ live'.streak = 0)
     /\ live'.total # live.total
          => live'.ev.started /\ live'.total = live.total + 1
     /\ live'.attempts # live.attempts
          => EvaluatedNow \/ live'.attempts = 0]_vars

C31_PlayCountsTarget ==
  /\ live.ev.act = "Play" /\ live.ev.started /\ live.ev.runs = <<>>
  /\ live.total = STREAK_TARGET /\ live.streak = STREAK_TARGET - 1
  /\ live.firstCorrect = STREAK_TARGET - 1

\* C33: for every key name (an unknown name counts from the root of C) and
\* every pitch the solfege lookup is defined, and the pitch and its octave
\* transpositions get the same syllable and diatonic flag
C33_LookupTotalAndOctaveInvariant ==
  /\ obs.root = (IF obs.key \in KnownKeys THEN 60 + KEY_TO_SEMITONE(obs.key) ELSE 60)
  /\ obs.info # NotLookedUp
       => /\ obs.info.syllable # "undefined"
          /\ obs.info = obs.first

\* a pitch two octaves away from the one first looked up, below the root of
\* a key that is not in the table
C33_UnknownKeyTwoOctavesDown ==
  /\ obs.key \notin KnownKeys /\ obs.pitch = obs.origin - 24
  /\ obs.pitch < obs.root /\ obs.info.syllable = "Fi"

\* C35: an evaluation raises the first-attempt-correct count or the streak
\* only when it is the first evaluation on the target since the target was
\* introduced; after a first evaluation no later one on the same target
\* does, also when the target was served again or replayed with Again.
C35_OnlyFirstEvaluationCredits ==
  \A i \in 1..Len(live.ev.runs) :
     live.ev.runs[i].credited => ~live.ev.runs[i].tried

\* C36: the step that carries out an automatic key change, at the end of
\* the congratulation pause or after a successful random-key roll, and
\* starts the next target sounds a cadence, whatever the repeat-cadence
\* setting.
C36_AutomaticKeyChangeSoundsCadence ==
  [][(CongratsEnds \/ live'.ev.rolled) /\ live'.ev.started
       => obs'.ev.cadence]_vars

\* C37: from the step after Stop was pressed in live mode until Play is
\* pressed again, no step starts a target, schedules a cadence or plays a
\* note.
C37_StopPausesTargetFlow ==
  [][live.paused /\ live'.paused
       => ~live'.ev.started /\ ~obs'.ev.cadence /\ obs'.ev.played = 0]_vars

\* C38: whenever the playback of a drill note ends while autoplay is
\* playing, a drill note is played again later, unless the user stops the
\* loop (Stop, a mode change, leaving the page) before that.
HaltActs == {"Stop", "ChangeMode", "Unmount"}

\* a callback is due that would take the pending timers past MaxTimers
Clogged ==
  \E i \in 1..Len(timers) :
    /\ Due(i)
    /\ \A c \in Choices :
         LET t == timers[i]
             rest == [j \in 1..(Len(timers) - 1) |->
                        IF j < i THEN timers[j] ELSE timers[j + 1]]
             w0 == [World("Fire") EXCEPT !.t = rest, !.o.ctxStale = t.stale,
                                         !.o.ctxCad = t.cad]
             w1 == fireTimer(w0, c, t)
         IN  Len(w1.t) > MaxTimers \/ Len(w1.a.thenQueue) > 2

C38_AutoplayContinues ==
  (obs.ev.done /\ hook.isPlaying /\ app.mode = "autoplay" /\ app.mounted)
    ~> (obs.ev.played # 0 \/ obs.ev.act \in HaltActs \/ Clogged)

\* the note whose roll succeeded has ended: the other key is marked and
\* the loop goes on
C38_RolledNoteCompleted ==
  /\ obs.ev.done /\ hook.isPlaying /\ app.mode = "autoplay"
  /\ app.randomKeyOn /\ hook.pendingKey # NoKey
  /\ CountKinds(timers, {"interval"}) > 0

\* C39: a test that was started from inside onComplete runs to completion:
\* when its cadence timeout elapses its note is played, and when its note
\* timeout elapses onComplete fires for it and, unless that callback starts
\* another test, the runner is idle with no current test.
C39_ChainedTestRunsToCompletion ==
  obs.ev.desc.reason = "auto"
    => /\ obs.ev.act = "CadenceTimer"
            => obs.ev.played = obs.ev.desc.id /\ audio.state = "note"
       /\ obs.ev.act = "NoteTimer"
            => /\ obs.ev.completed = obs.ev.desc.id
               /\ audio.state = "idle" => audio.current = NoTest

\* C32: when a call of chooseRandomNote uses up its attempts the step that
\* made the call plays no note, arms no note timer and leaves the current
\* note alone; every note that is chosen or played lies in the range and
\* passes the note-mode filter
C32_SpentBudgetSkipsDrill ==
  [][/\ obs'.ev.skipped
          => /\ obs'.ev.played = 0 /\ ~obs'.ev.target
             /\ app'.currentNote = app.currentNote
             /\ CountKinds(timers', {"noteStart"}) <= CountKinds(timers, {"noteStart"})
     /\ obs'.ev.target
          => app'.currentNote \in Candidates(app.keyCenter, app.noteMode)
                                   \cup Candidates(app'.keyCenter, app.noteMode)
     /\ obs'.ev.played # 0 => obs'.ev.played \in LowPitch..HighPitch
     /\ \A i \in 1..Len(timers') :
          timers'[i].kind = "noteStart" => timers'[i].note \in LowPitch..HighPitch]_vars

\* the cadence of an autoplay cycle has ended and the call that should have
\* chosen its note came back empty
C32_CycleSkipped ==
  /\ obs.ev.skipped /\ obs.ev.act = "Fire" /\ hook.isPlaying
  /\ CountKinds(timers, {"noteStart", "noteDone"}) = 0

(***************************************************************************)
(* Pitch detection: properties                                             *)
(***************************************************************************)
\* C6: the stabilized pitch changes to a value only when the frames right
\* before it, at least REQUIRED_STABLE_FRAMES of them and spanning at least
\* REQUIRED_STABLE_MS, were all accepted candidates within the jitter span.
C6_PromotionNeedsSustainedCandidate ==
  det.promoted => det.run >= det.cl.frames /\ det.runAge >= det.cl.ms

\* C7: while the feed alternates between two different pitches on every
\* frame, all frames passing the gates, no stabilized pitch is published.
C7_OscillationNeverStabilizes ==
  det.osc /\ det.n > 0 => det.detected = 0

\* C8: once the RMS has stayed below half the amplitude threshold for more
\* than the idle timeout, the stabilized pitch is null.
C8_IdleClears ==
  det.lowFor > CLEAR_ON_IDLE_MS => det.detected = 0

C8_ClearedAfterSilence ==
  det.cleared /\ det.lowFor > CLEAR_ON_IDLE_MS /\ det.detected = 0

\* C34: once a pitch has been held for at least REQUIRED_STABLE_FRAMES
\* accepted frames in a row spanning at least REQUIRED_STABLE_MS, it is the
\* stabilized pitch, also when another pitch was the stabilized pitch before
\* and no idle clear came in between.
C34_SteadyPitchReplacesStable ==
  det.hit /\ det.held >= det.cl.frames /\ det.heldAge >= det.cl.ms
    => det.detected = det.prev

\* what the loop does instead: a pitch is promoted only over null
C34_PromotedOnlyOverNull ==
  det.promoted => det.over = 0

C34_PromotedFromNull ==
  det.promoted /\ det.over = 0 /\ det.n > 0

\* C23: once live mode was stopped (stopMode, leaving live mode, unmount)
\* and until it is started again, the detection loop is not armed and no
\* detection step runs, also when the stop came while initMic was still
\* awaiting getUserMedia.
C23_StopHaltsDetection ==
  det.stopped => ~det.running /\ det.act # "Frame"

\* C24: the step in which the idle fade fires leaves the effective display
\* pitch null together with the stabilized pitch, and the effective display
\* pitch stays null until a candidate is accepted again.
C24_IdleClearsDisplay ==
  /\ det.cleared => det.detected = 0 /\ det.eff = 0
  /\ det.idle => det.eff = 0

\* C25: the raw candidate pitch and the stabilized pitch are each null or
\* within DETECT_MIN..DETECT_MAX in every state; a clear, loud candidate
\* outside that window changes neither.
C25_WithinDetectableWindow ==
  /\ det.raw \in {0} \cup (DETECT_MIN..DETECT_MAX)
  /\ det.detected \in {0} \cup (DETECT_MIN..DETECT_MAX)
  /\ det.lastDetected \in {0} \cup (DETECT_MIN..DETECT_MAX)

C25_OutsideCandidateRejected ==
  /\ det.act = "Frame" /\ det.outside /\ det.prev > DETECT_MAX
  /\ det.raw = 60 /\ det.detected = 60

\* C26: from the rejection of getUserMedia until the next request for the
\* microphone, the error is reported, listening is false, the detection
\* loop is not armed, no detection step runs and the stabilized pitch is
\* null.
C26_DeniedMicStaysSilent ==
  det.mic = "denied"
    => /\ det.error /\ ~det.listening
       /\ ~det.running /\ det.act # "Frame"
       /\ det.detected = 0

LiveRuns == {live.ev.runs[i] : i \in 1..Len(live.ev.runs)}

\* two pitches carry the same solfege degree against a key root
SameDegree(p, q, root) ==
  \E d \in 0..11 : \E j, k \in (0 - 12)..12 :
    p = root + d + 12 * j /\ q = root + d + 12 * k

\* C9: every evaluated (target, detected) pair gets exactly one outcome:
\* exact iff the detected pitch equals the target, near iff the pitches
\* differ and have the same solfege degree against the current key root,
\* wrong otherwise; the feedback of a first attempt follows the outcome.
C9_ExactlyOneOutcome ==
  \A r \in LiveRuns :
    r.evaluated =>
      LET root == computeRoot(r.key)
          wrong == ~r.exact /\ ~r.near
      IN  /\ r.exact <=> r.stable = r.target
          /\ r.near <=> r.stable # r.target /\ SameDegree(r.stable, r.target, root)
          /\ ~(r.exact /\ r.near)
          /\ r.first =>
               /\ r.exact => r.feedback = "correct"
               /\ r.near => r.feedback = IF r.strict THEN "near" ELSE "correct"
               /\ wrong => r.feedback = "wrong"

C9_NearEvaluated ==
  \E r \in LiveRuns :
    /\ r.evaluated /\ r.first /\ r.strict
    /\ r.stable < computeRoot(r.key) /\ r.stable # r.target
    /\ SameDegree(r.stable, r.target, computeRoot(r.key))
    /\ r.feedback = "near"

\* C10: a stabilized pitch is evaluated only with a target pending, the
\* suppression window over, the feedback not yet 'correct' and a value other
\* than the last evaluated one; in every other situation it changes no
\* feedback, attempt count, streak or metric.
C10_EvaluationGuards ==
  \A r \in LiveRuns :
    LET open == /\ r.target # 0 /\ r.blocked = 0
                /\ r.was # "correct" /\ r.stable # r.last
    IN  /\ r.evaluated => open
        /\ ~open => ~r.evaluated /\ ~r.changed

C10_SustainedPitchIgnored ==
  \E r \in LiveRuns :
    /\ r.target # 0 /\ r.blocked = 0 /\ r.was # "correct"
    /\ r.stable = r.last /\ ~r.evaluated /\ ~r.changed


\* a live target served with its cadence: the timer armed last is a
\* target-note timer that waits for the length of the cadence
ServedWithCadence ==
  /\ live'.ev.started /\ timers' # <<>>
  /\ timers'[Len(timers')].kind = "targetNote"
  /\ timers'[Len(timers')].rem = CadenceLen(app.cadenceSpeed) + TARGET_NOTE_DELAY_MS

====
